---- MODULE Spec2Model ----
(***************************************************************************)
(* A model of the emailmak crawl-and-enrich pipeline.                      *)
(*                                                                         *)
(*   Spec        one pipeline run: the streaming generator of server.py    *)
(*               (crawl_stream.generate) or an adapter's batch             *)
(*               crawl_with_emails (saramin.py, jobkorea.py)               *)
(*   SpecRank    the ranking step of batch mode on arbitrary lists         *)
(*   SpecSearch  the paginated search of the Saramin and JobKorea adapters *)
(*   SpecWanted  the search of the Wanted adapter                          *)
(*   SpecContact one email extraction (EmailExtractor.extract_from_url)    *)
(*   SpecEmail   the email pattern and validator of EmailExtractor, and    *)
(*               the emails set over the pages of one extraction           *)
(*   SpecDetail  homepage resolution (get_company_detail) of the three     *)
(*               adapters, and the JobKorea job-page hop                   *)
(*   SpecCard    title and company name of one JobKorea job card           *)
(*   SpecRequest validation and dispatch at the entry points of server.py  *)
(*   SpecClient  the lifetime of the HTTP clients of one run               *)
(*   SpecPair    two streaming runs interleaved at their awaits            *)
(***************************************************************************)
EXTENDS Integers, Sequences, FiniteSets, TLC

\* Bounds of the model.
MaxCompanies == 3

\* Python's None, and the absence of a key of a dict.
None == "None"

\* The addresses an extraction may return, and the messages of the
\* exceptions an enrichment step may raise.
EmailPool == {"e1", "e2"}
ExcMsgs == {"boom"}

VARIABLES
    mode,         \* "stream": crawl_stream.generate; "batch": crawl_with_emails
    source,       \* request.source / the adapter
    hasCallback,  \* batch: a progress_callback was passed
    pc,           \* the position of the run
    companies,    \* the run's list of company records
    searched,     \* the search stage has returned its list
    found,        \* the list as the search stage returned it
    idx,          \* the record being enriched (1-based; the code's idx + 1)
    exc,          \* the message of the exception being handled
    events,       \* stream: the events yielded so far
    trace,        \* enrichment fetches and progress notifications, in order
    faulted,      \* the records whose enrichment raised
    returned      \* batch: the list crawl_with_emails returned

runVars == <<mode, source, hasCallback, pc, companies, searched, found, idx,
             exc, events, trace, faulted, returned>>

\* SpecRank: the ranking step on a list of its own.
VARIABLES
    rPc,          \* "in", "ranked", "reranked" ("off" in the other specifications)
    rList,        \* the list before ranking
    rRanked,      \* the list after the ranking step
    rAgain        \* the ranked list after a second ranking step

rankVars == <<rPc, rList, rRanked, rAgain>>

\* SpecSearch: SaraminCrawler.search / JobKoreaCrawler.search.
VARIABLES
    sPc,          \* "page", "sleep", "dedup", "done" ("off" elsewhere)
    sAdapter,     \* "saramin" or "jobkorea"
    sStart,       \* start_page
    sEnd,         \* end_page
    sPage,        \* the loop variable page
    sCompanies,   \* companies: the records of the pages so far
    sFetched,     \* one entry per page fetch issued, in order
    sResult       \* unique_companies as returned

searchVars == <<sPc, sAdapter, sStart, sEnd, sPage, sCompanies, sFetched,
                sResult>>

\* SpecWanted: WantedCrawler.search.
VARIABLES
    wPc,          \* "fetch", "parse", "slice", "done" ("off" elsewhere)
    wStart,       \* start_page
    wEnd,         \* end_page
    wHasData,     \* fetch_json returned a response with data.companies
    wRaw,         \* raw_companies: data['data']['companies']
    wCompanies,   \* companies: the records of the accepted items
    wResult       \* the list returned

wantedVars == <<wPc, wStart, wEnd, wHasData, wRaw, wCompanies, wResult>>

\* SpecContact: EmailExtractor.extract_from_url.
VARIABLES
    xPc,          \* "main", "find", "contact", "done" ("off" elsewhere)
    xAnchors,     \* the anchors of the homepage as _find_contact_pages saw them
    xContacts,    \* contact_urls
    xNext,        \* the position in contact_urls[:3] of the next page to fetch
    xFetches,     \* one entry per request issued, in order
    xEmails       \* emails: the addresses collected so far

contactVars == <<xPc, xAnchors, xContacts, xNext, xFetches, xEmails>>

\* SpecEmail: EmailExtractor._extract_emails on a text, and the emails set
\* of extract_from_url over the pages of one extraction.
VARIABLES
    ePc,          \* "text", "validated", "revalidated"; "main", "contact",
                  \* "done" ("off" elsewhere)
    eText,        \* the text given to _extract_emails
    eValid,       \* _extract_emails(text)
    eAgain,       \* _extract_emails of the text made of eValid
    ePages,       \* per page _extract_from_page has handled: "ok" or "failed"
    eEmails       \* emails of extract_from_url

emailVars == <<ePc, eText, eValid, eAgain, ePages, eEmails>>

\* SpecDetail: get_company_detail of the three adapters and
\* JobKoreaCrawler._get_company_url_from_job.
VARIABLES
    dPc,          \* "call", "parse", "done", "raised" ("off" elsewhere)
    dAdapter,     \* "saramin", "jobkorea" or "wanted"
    dOp,          \* "detail": get_company_detail; "hop": the job-page hop
    dDoc,         \* the page (or JSON document) the fetch returned
    dFailure,     \* "none", "fetch" or "parse": what went wrong in the call
    dHomepage,    \* detail: the homepage returned
    dCompanyUrl   \* hop: the company page's URL returned

detailVars == <<dPc, dAdapter, dOp, dDoc, dFailure, dHomepage, dCompanyUrl>>

\* SpecCard: one job card of JobKoreaCrawler._parse_search_results.
VARIABLES
    kPc,          \* "card", "parsed", "skipped" ("off" elsewhere)
    kLinks,       \* the texts of the card's GI_Read links, in document order
    kTitle,       \* job_title
    kCompany      \* company_name

cardVars == <<kPc, kLinks, kTitle, kCompany>>

\* SpecRequest: the entry points crawl and crawl_stream of server.py, up to
\* the end of the search stage.
VARIABLES
    qPc,          \* "validate", "select", "search", "done" ("off" elsewhere)
    qEndpoint,    \* "batch": POST /api/crawl; "stream": POST /api/crawl/stream
    qKeyword,     \* request.keyword
    qStart,       \* request.start_page
    qEnd,         \* request.end_page
    qSource,      \* request.source
    qStatus,      \* the HTTP status of the response, 0 before there is one
    qAdapter,     \* the adapter the request was dispatched to, or None
    qPage,        \* the loop variable page of the adapter's search
    qFetches,     \* the search pages fetched, in order
    qOutput       \* what the run produced: events, or the result marker

requestVars == <<qPc, qEndpoint, qKeyword, qStart, qEnd, qSource, qStatus,
                 qAdapter, qPage, qFetches, qOutput>>

\* SpecClient: the HTTP clients of one run of crawl or crawl_stream.
VARIABLES
    cPc,          \* "enter", "search", "fetch", "extract", "pages", "sleep",
                  \* "suspended", "return", "ended" ("off" elsewhere)
    cMode,        \* "stream": crawl_stream.generate; "batch": crawl
    cClient,      \* the adapter's self.client: "none", "open" or "closed"
    cExtractor,   \* the client of the running or last extraction, likewise
    cOpened,      \* the number of extraction clients opened
    cClosed,      \* the number of extraction clients closed
    cTotal,       \* total: the number of records of the search result
    cIdx,         \* the record being enriched (1-based)
    cEvent,       \* the event whose yield the generator is suspended at
    cExit         \* how the run ended, "none" before

clientVars == <<cPc, cMode, cClient, cExtractor, cOpened, cClosed, cTotal,
                cIdx, cEvent, cExit>>

\* SpecPair: two concurrent runs of crawl_stream.generate.
VARIABLES
    pPc,          \* per run: "enter", "search", "detail", "extract", "sleep",
                  \* "done" (no run elsewhere)
    pResp,        \* per run: what the requests for its records answer
    pClients,     \* per crawler object: its self.client
    pCompanies,   \* per run: companies, the list of its generator
    pIdx,         \* per run: the record being enriched (1-based)
    pEvents,      \* per run: the events yielded to its consumer
    pUsed         \* which run used the client of which crawler

pairVars == <<pPc, pResp, pClients, pCompanies, pIdx, pEvents, pUsed>>

vars == <<runVars, rankVars, searchVars, wantedVars, contactVars,
          emailVars, detailVars, cardVars, requestVars, clientVars, pairVars>>

notRun == <<rankVars, searchVars, wantedVars, contactVars, emailVars,
            detailVars, cardVars, requestVars, clientVars, pairVars>>
notRank == <<runVars, searchVars, wantedVars, contactVars, emailVars,
             detailVars, cardVars, requestVars, clientVars, pairVars>>
notSearch == <<runVars, rankVars, wantedVars, contactVars, emailVars,
               detailVars, cardVars, requestVars, clientVars, pairVars>>
notWanted == <<runVars, rankVars, searchVars, contactVars, emailVars,
               detailVars, cardVars, requestVars, clientVars, pairVars>>
notContact == <<runVars, rankVars, searchVars, wantedVars, emailVars,
                detailVars, cardVars, requestVars, clientVars, pairVars>>
notEmail == <<runVars, rankVars, searchVars, wantedVars, contactVars,
              detailVars, cardVars, requestVars, clientVars, pairVars>>
notDetail == <<runVars, rankVars, searchVars, wantedVars, contactVars,
               emailVars, cardVars, requestVars, clientVars, pairVars>>
notCard == <<runVars, rankVars, searchVars, wantedVars, contactVars,
             emailVars, detailVars, requestVars, clientVars, pairVars>>
notRequest == <<runVars, rankVars, searchVars, wantedVars, contactVars,
                emailVars, detailVars, cardVars, clientVars, pairVars>>
notClient == <<runVars, rankVars, searchVars, wantedVars, contactVars,
               emailVars, detailVars, cardVars, requestVars, pairVars>>
notPair == <<runVars, rankVars, searchVars, wantedVars, contactVars,
             emailVars, detailVars, cardVars, requestVars, clientVars>>

\* The variables of a specification that is not running.
RunOff ==
    /\ mode = "off" /\ source = "off" /\ hasCallback = FALSE /\ pc = "off"
    /\ companies = <<>> /\ searched = FALSE /\ found = <<>> /\ idx = 0
    /\ exc = None /\ events = <<>> /\ trace = <<>> /\ faulted = {}
    /\ returned = <<>>

RankOff ==
    /\ rPc = "off" /\ rList = <<>> /\ rRanked = <<>> /\ rAgain = <<>>

SearchOff ==
    /\ sPc = "off" /\ sAdapter = "off" /\ sStart = 0 /\ sEnd = 0 /\ sPage = 0
    /\ sCompanies = <<>> /\ sFetched = <<>> /\ sResult = <<>>

WantedOff ==
    /\ wPc = "off" /\ wStart = 0 /\ wEnd = 0 /\ wHasData = FALSE /\ wRaw = <<>>
    /\ wCompanies = <<>> /\ wResult = <<>>

ContactOff ==
    /\ xPc = "off" /\ xAnchors = <<>> /\ xContacts = <<>> /\ xNext = 0
    /\ xFetches = <<>> /\ xEmails = {}

DetailOff ==
    /\ dPc = "off" /\ dAdapter = "off" /\ dOp = "off" /\ dDoc = <<>>
    /\ dFailure = "none" /\ dHomepage = [http |-> FALSE, host |-> "None"]
    /\ dCompanyUrl = "None"

RequestOff ==
    /\ qPc = "off" /\ qEndpoint = "off" /\ qKeyword = "" /\ qStart = 0
    /\ qEnd = 0 /\ qSource = "off" /\ qStatus = 0 /\ qAdapter = "None"
    /\ qPage = 0 /\ qFetches = <<>> /\ qOutput = <<>>

CardOff ==
    /\ kPc = "off" /\ kLinks = <<>> /\ kTitle = <<>> /\ kCompany = <<>>

EmailOff ==
    /\ ePc = "off" /\ eText = <<>> /\ eValid = {} /\ eAgain = {}
    /\ ePages = <<>> /\ eEmails = {}

ClientOff ==
    /\ cPc = "off" /\ cMode = "off" /\ cClient = "none"
    /\ cExtractor = "none" /\ cOpened = 0 /\ cClosed = 0 /\ cTotal = 0
    /\ cIdx = 0 /\ cEvent = "none" /\ cExit = "none"

PairOff ==
    /\ pPc = <<>> /\ pResp = <<>> /\ pClients = <<>> /\ pCompanies = <<>>
    /\ pIdx = <<>> /\ pEvents = <<>> /\ pUsed = {}

----------------------------------------------------------------------------
(* Records and events *)

\* A record as _parse_search_results builds it.  Saramin records carry the
\* company page's URL; JobKorea records carry the job posting's URL only.
NewCompany(src, i) ==
    [company_name |-> i,
     company_url  |-> IF src = "saramin" THEN "url" ELSE None,
     job_url      |-> IF src = "jobkorea" THEN "url" ELSE None,
     homepage     |-> None,
     emails       |-> {},
     error        |-> None,
     source       |-> None]

SearchResult(src, n) == [i \in 1..n |-> NewCompany(src, i)]

StartEvent(t) == [type |-> "start", total |-> t]
ProgressEvent(cur, t, c) ==
    [type |-> "progress", current |-> cur, total |-> t, company |-> c]
CompleteEvent(t) == [type |-> "complete", total |-> t]
ErrorEvent(m) == [type |-> "error", message |-> m]

Fetch(i, what) == [op |-> "fetch", rec |-> i, what |-> what]
Notify(i) == [op |-> "notify", rec |-> i]

----------------------------------------------------------------------------
(* The ranking step: companies.sort(key=len(emails), reverse=True) *)

Reverse(s) == [i \in 1..Len(s) |-> s[Len(s) + 1 - i]]

EmailCount(c) == Cardinality(c.emails)

\* Insert c into the ascending list s behind every element that is not
\* greater: the insertion step of a stable sort.
RECURSIVE InsertAsc(_, _)
InsertAsc(s, c) ==
    IF s = <<>> THEN <<c>>
    ELSE IF EmailCount(s[Len(s)]) <= EmailCount(c) THEN Append(s, c)
    ELSE Append(InsertAsc(SubSeq(s, 1, Len(s) - 1), c), s[Len(s)])

RECURSIVE StableSortAsc(_)
StableSortAsc(s) ==
    IF s = <<>> THEN <<>>
    ELSE InsertAsc(StableSortAsc(SubSeq(s, 1, Len(s) - 1)), s[Len(s)])

\* A descending sort that reverses an ascending one: equal counts swap order.
SortByEmailsUnstable(s) == Reverse(StableSortAsc(s))

\* list.sort(reverse=True): the list is reversed, sorted ascending by a
\* stable sort, and reversed again, which keeps equal keys in their order.
SortByEmails(s) == Reverse(StableSortAsc(Reverse(s)))

----------------------------------------------------------------------------
(* One pipeline run *)

Total == Len(companies)

StreamEntry(c) ==
    IF source = "jobkorea" /\ c.job_url # None /\ c.company_url = None
    THEN "hop"
    ELSE IF c.company_url # None THEN "detail"
    ELSE IF c.homepage # None THEN "extract"
    ELSE "progress"

BatchEntry(c) ==
    IF source = "jobkorea"
    THEN IF c.job_url # None THEN "hop"
         ELSE IF c.homepage # None THEN "extract" ELSE "sleep"
    ELSE IF c.company_url # None THEN "detail"
    ELSE IF c.homepage # None THEN "extract"
    ELSE "sleep"

\* Without a homepage the loop body ends without its progress event.
AfterDetailNoProgress(c) == IF c.homepage # None THEN "extract" ELSE "sleep"

\* The step after the detail page: extraction when a homepage is known.
AfterDetail(c) ==
    IF c.homepage # None THEN "extract"
    ELSE IF mode = "stream" THEN "progress" ELSE "sleep"

\* The step after the job-page hop: the detail page when it gave a URL.
AfterHop(c) == IF c.company_url # None THEN "detail" ELSE AfterDetail(c)

\* The first step of the loop body for record i.
LoopEntry(c) ==
    IF mode = "stream" THEN StreamEntry(c)
    ELSE IF hasCallback THEN "callback" ELSE BatchEntry(c)

\* The position after the loop.
LoopExit == IF mode = "stream" THEN "complete" ELSE "rank"

\* Enter the loop body for record i of cs, or leave the loop.
EnterRecord(cs, i) ==
    IF i <= Len(cs)
    THEN /\ idx' = i
         /\ companies' =
                IF mode = "stream"
                THEN [cs EXCEPT ![i].source = source]
                ELSE cs
         /\ pc' = LoopEntry(companies'[i])
    ELSE /\ idx' = i
         /\ companies' = cs
         /\ pc' = LoopExit

RunInit ==
    /\ mode \in {"stream", "batch"}
    /\ source \in IF mode = "stream"
                  THEN {"saramin", "jobkorea", "wanted"}
                  ELSE {"saramin", "jobkorea"}
    /\ hasCallback \in IF mode = "batch" THEN BOOLEAN ELSE {FALSE}
    /\ pc = IF mode = "stream" THEN "select" ELSE "search"
    /\ companies = <<>>
    /\ searched = FALSE
    /\ found = <<>>
    /\ idx = 0
    /\ exc = None
    /\ events = <<>>
    /\ trace = <<>>
    /\ faulted = {}
    /\ returned = <<>>

\* generate: the crawler class of the source, or an error event and return.
SelectCrawler ==
    /\ UNCHANGED notRun
    /\ pc = "select"
    /\ IF source \in {"saramin", "jobkorea"}
       THEN /\ pc' = "search"
            /\ UNCHANGED events
       ELSE /\ events' = Append(events, ErrorEvent("unsupported source"))
            /\ pc' = "done"
    /\ UNCHANGED <<mode, source, hasCallback, companies, searched, found, idx, exc,
                   trace, faulted, returned>>

\* The search stage returns its list of deduplicated records.
SearchReturns ==
    /\ UNCHANGED notRun
    /\ pc = "search"
    /\ \E n \in 0..MaxCompanies :
        /\ found' = SearchResult(source, n)
        /\ searched' = TRUE
        /\ IF mode = "stream"
           THEN /\ pc' = "start"
                /\ companies' = found'
                /\ UNCHANGED idx
           ELSE EnterRecord(found', 1)
    /\ UNCHANGED <<mode, source, hasCallback, exc, events, trace, faulted,
                   returned>>

\* Opening the client or the search stage raises: the generator's outer
\* handler yields an error event; crawl_with_emails lets it propagate.
SearchRaises ==
    /\ UNCHANGED notRun
    /\ pc = "search"
    /\ \E m \in ExcMsgs :
        IF mode = "stream"
        THEN /\ events' = Append(events, ErrorEvent(m))
             /\ pc' = "done"
        ELSE /\ pc' = "raised"
             /\ UNCHANGED events
    /\ UNCHANGED <<mode, source, hasCallback, companies, searched, found, idx, exc,
                   trace, faulted, returned>>

\* generate: yield the start event, then enter the loop.
StreamStart ==
    /\ UNCHANGED notRun
    /\ pc = "start"
    /\ events' = Append(events, StartEvent(Total))
    /\ EnterRecord(companies, 1)
    /\ UNCHANGED <<mode, source, hasCallback, searched, found, exc, trace, faulted,
                   returned>>

\* The callback called outside the try: its exception leaves crawl_with_emails.
BatchCallbackEscapes ==
    /\ UNCHANGED notRun
    /\ pc = "callback"
    /\ trace' = Append(trace, Notify(idx))
    /\ \/ /\ pc' = BatchEntry(companies[idx])
          /\ UNCHANGED <<exc, faulted>>
       \/ /\ \E m \in ExcMsgs : exc' = m
          /\ pc' = "raised"
          /\ faulted' = faulted \cup {idx}
    /\ UNCHANGED <<mode, source, hasCallback, companies, searched, found, idx, events,
                   returned>>

\* crawl_with_emails: progress_callback(idx + 1, total, company_name),
\* called first in the loop body; an exception of it lands in the handler.
BatchCallback ==
    /\ UNCHANGED notRun
    /\ pc = "callback"
    /\ trace' = Append(trace, Notify(idx))
    /\ \/ /\ pc' = BatchEntry(companies[idx])
          /\ UNCHANGED <<exc, faulted>>
       \/ /\ \E m \in ExcMsgs : exc' = m
          /\ pc' = "except"
          /\ faulted' = faulted \cup {idx}
    /\ UNCHANGED <<mode, source, hasCallback, companies, searched, found, idx, events,
                   returned>>

\* _get_company_url_from_job: the company page's URL, None, or an exception.
Hop ==
    /\ UNCHANGED notRun
    /\ pc = "hop"
    /\ trace' = Append(trace, Fetch(idx, "hop"))
    /\ \/ /\ \E u \in {None, "url"} :
                companies' = [companies EXCEPT ![idx].company_url = u]
          /\ pc' = AfterHop(companies'[idx])
          /\ UNCHANGED <<exc, faulted>>
       \/ /\ \E m \in ExcMsgs : exc' = m
          /\ pc' = "except"
          /\ faulted' = faulted \cup {idx}
          /\ UNCHANGED companies
    /\ UNCHANGED <<mode, source, hasCallback, searched, found, idx, events, returned>>

\* get_company_detail: the homepage, None, or an exception.
Detail ==
    /\ UNCHANGED notRun
    /\ pc = "detail"
    /\ trace' = Append(trace, Fetch(idx, "detail"))
    /\ \/ /\ \E h \in {None, "hp"} :
                companies' = [companies EXCEPT ![idx].homepage = h]
          /\ pc' = AfterDetail(companies'[idx])
          /\ UNCHANGED <<exc, faulted>>
       \/ /\ \E m \in ExcMsgs : exc' = m
          /\ pc' = "except"
          /\ faulted' = faulted \cup {idx}
          /\ UNCHANGED companies
    /\ UNCHANGED <<mode, source, hasCallback, searched, found, idx, events, returned>>

\* email_extractor.extract_from_url: the emails found, or an exception.
Extract ==
    /\ UNCHANGED notRun
    /\ pc = "extract"
    /\ trace' = Append(trace, Fetch(idx, "extract"))
    /\ \/ /\ \E es \in SUBSET EmailPool :
                companies' = [companies EXCEPT ![idx].emails = es]
          /\ pc' = IF mode = "stream" THEN "progress" ELSE "sleep"
          /\ UNCHANGED <<exc, faulted>>
       \/ /\ \E m \in ExcMsgs : exc' = m
          /\ pc' = "except"
          /\ faulted' = faulted \cup {idx}
          /\ UNCHANGED companies
    /\ UNCHANGED <<mode, source, hasCallback, searched, found, idx, events, returned>>

\* generate: yield the record's progress event.
StreamProgress ==
    /\ UNCHANGED notRun
    /\ pc = "progress"
    /\ events' = Append(events, ProgressEvent(idx, Total, companies[idx]))
    /\ trace' = Append(trace, Notify(idx))
    /\ pc' = "sleep"
    /\ UNCHANGED <<mode, source, hasCallback, companies, searched, found, idx, exc,
                   faulted, returned>>

\* asyncio.sleep(0.3), the last statement of the loop body.
Sleep ==
    /\ UNCHANGED notRun
    /\ pc = "sleep"
    /\ EnterRecord(companies, idx + 1)
    /\ UNCHANGED <<mode, source, hasCallback, searched, found, exc, events, trace,
                   faulted, returned>>

\* generate's inner handler abandons the run: the exception reaches the
\* outer handler, which yields an error event.
StreamExceptEscalate ==
    /\ UNCHANGED notRun
    /\ pc = "except"
    /\ mode = "stream"
    /\ events' = Append(events, ErrorEvent(exc))
    /\ pc' = "done"
    /\ exc' = None
    /\ UNCHANGED <<mode, source, hasCallback, companies, searched, found, idx, trace,
                   faulted, returned>>

\* generate's inner handler records the error and yields nothing.
StreamExceptSilent ==
    /\ UNCHANGED notRun
    /\ pc = "except"
    /\ mode = "stream"
    /\ exc' = None
    /\ EnterRecord([companies EXCEPT ![idx].error = exc], idx + 1)
    /\ UNCHANGED <<mode, source, hasCallback, searched, found, events, trace, faulted,
                   returned>>

\* generate's inner handler: record the message on the company, yield its
\* progress event, go on with the next record.
StreamExcept ==
    /\ UNCHANGED notRun
    /\ pc = "except"
    /\ mode = "stream"
    /\ LET cs == [companies EXCEPT ![idx].error = exc] IN
        /\ events' = Append(events, ProgressEvent(idx, Total, cs[idx]))
        /\ trace' = Append(trace, Notify(idx))
        /\ EnterRecord(cs, idx + 1)
    /\ exc' = None
    /\ UNCHANGED <<mode, source, hasCallback, searched, found, faulted, returned>>

\* crawl_with_emails' handler lets the exception out of the loop.
BatchExceptAbort ==
    /\ UNCHANGED notRun
    /\ pc = "except"
    /\ mode = "batch"
    /\ pc' = "raised"
    /\ exc' = None
    /\ UNCHANGED <<mode, source, hasCallback, companies, searched, found, idx, events,
                   trace, faulted, returned>>

\* crawl_with_emails' handler: print and continue.
BatchExcept ==
    /\ UNCHANGED notRun
    /\ pc = "except"
    /\ mode = "batch"
    /\ exc' = None
    /\ EnterRecord(companies, idx + 1)
    /\ UNCHANGED <<mode, source, hasCallback, searched, found, events, trace, faulted,
                   returned>>

\* crawl_with_emails: sort by the number of emails, return the list.
Rank ==
    /\ UNCHANGED notRun
    /\ pc = "rank"
    /\ companies' = SortByEmails(companies)
    /\ returned' = companies'
    /\ pc' = "done"
    /\ UNCHANGED <<mode, source, hasCallback, searched, found, idx, exc, events, trace,
                   faulted>>

\* generate: yield the complete event.
StreamComplete ==
    /\ UNCHANGED notRun
    /\ pc = "complete"
    /\ events' = Append(events, CompleteEvent(Total))
    /\ pc' = "done"
    /\ UNCHANGED <<mode, source, hasCallback, companies, searched, found, idx, exc,
                   trace, faulted, returned>>

RunNext ==
    \/ SelectCrawler
    \/ SearchReturns
    \/ SearchRaises
    \/ StreamStart
    \/ BatchCallback
    \/ Hop
    \/ Detail
    \/ Extract
    \/ StreamProgress
    \/ Sleep
    \/ StreamExcept
    \/ BatchExcept
    \/ Rank
    \/ StreamComplete

----------------------------------------------------------------------------
(* SpecRank: the ranking step applied to a list, and again to its result *)

MaxRankLen == 4

\* The email lists a ranked record may carry: 0, 1 or 2 addresses.
RankEmailSets == {{}, {"e1"}, {"e1", "e2"}}

\* The lists of n enriched records; company_name is the position in the list.
RankInputs(n) ==
    { [i \in 1..n |-> [NewCompany("saramin", i) EXCEPT !.emails = f[i]]] :
        f \in [1..n -> RankEmailSets] }

RankInit ==
    /\ rPc = "in"
    /\ \E n \in 0..MaxRankLen : rList \in RankInputs(n)
    /\ rRanked = <<>>
    /\ rAgain = <<>>

\* companies.sort(key=lambda x: len(x.get('emails', [])), reverse=True)
RankList ==
    /\ UNCHANGED notRank
    /\ rPc = "in"
    /\ rRanked' = SortByEmails(rList)
    /\ rPc' = "ranked"
    /\ UNCHANGED <<rList, rAgain>>

\* The same statement on the list it produced.
RankAgain ==
    /\ UNCHANGED notRank
    /\ rPc = "ranked"
    /\ rAgain' = SortByEmails(rRanked)
    /\ rPc' = "reranked"
    /\ UNCHANGED <<rList, rRanked>>

RankNext == RankList \/ RankAgain

----------------------------------------------------------------------------
(* SpecSearch: search(keyword, start_page, end_page) of the Saramin and   *)
(* JobKorea adapters                                                       *)

MaxPage == 2
MaxCards == 3

\* The listings a search page may show, by the fields the parser reads.
\* A Saramin item may lack the company link (company_url '').
SaraminCards ==
    { [company_name |-> "A", company_url |-> u, job_title |-> t] :
        u \in {"", "u1", "u2"}, t \in {"t1", "t2"} }

\* A JobKorea card has a non-empty company name and no company URL yet.
JobKoreaCards ==
    { [company_name |-> n, company_url |-> None, job_title |-> t] :
        n \in {"A", "B"}, t \in {"t1", "t2"} }

Cards(a) == IF a = "saramin" THEN SaraminCards ELSE JobKoreaCards

SeqsUpTo(S, k) == UNION { [1..n -> S] : n \in 0..k }

\* Python's truth value of a string or None.
Truthy(v) == v # "" /\ v # None

\* JobKoreaCrawler._parse_search_results: a card whose company name was
\* seen on the same page is skipped.
RECURSIVE JobKoreaParse(_, _, _)
JobKoreaParse(cards, seen, acc) ==
    IF cards = <<>> THEN acc
    ELSE LET c == Head(cards) IN
         IF ~Truthy(c.company_name) \/ c.company_name \in seen
         THEN JobKoreaParse(Tail(cards), seen, acc)
         ELSE JobKoreaParse(Tail(cards), seen \cup {c.company_name},
                            Append(acc, c))

\* _parse_search_results: the records of one page.
ParsePage(a, cards) ==
    IF a = "saramin" THEN cards ELSE JobKoreaParse(cards, {}, <<>>)

\* The dedup key: company_url (Saramin), company_name (JobKorea).
DedupKey(a, c) == IF a = "saramin" THEN c.company_url ELSE c.company_name

\* The dedup loop: keep a record when its key is truthy and not yet seen.
RECURSIVE Unique(_, _, _, _)
Unique(a, cs, seen, acc) ==
    IF cs = <<>> THEN acc
    ELSE LET c == Head(cs)
             k == DedupKey(a, c)
         IN IF Truthy(k) /\ k \notin seen
            THEN Unique(a, Tail(cs), seen \cup {k}, Append(acc, c))
            ELSE Unique(a, Tail(cs), seen, acc)

\* A dedup that keeps the last record of each key.
UniqueCompaniesKeepLast(a, cs) == Reverse(Unique(a, Reverse(cs), {}, <<>>))

\* unique_companies of search.
UniqueCompanies(a, cs) == Unique(a, cs, {}, <<>>)

SearchInit ==
    /\ sAdapter \in {"saramin", "jobkorea"}
    /\ sStart \in 1..MaxPage
    /\ sEnd \in 1..MaxPage
    /\ sPage = sStart
    /\ sPc = IF sStart <= sEnd THEN "page" ELSE "dedup"
    /\ sCompanies = <<>>
    /\ sFetched = <<>>
    /\ sResult = <<>>

\* The position after the body of the page loop.
AfterPage == IF sPage < sEnd THEN "sleep" ELSE "dedup"

\* The loop gives up at the first page whose fetch fails.
SearchPageFailsAbort ==
    /\ UNCHANGED notSearch
    /\ sPc = "page"
    /\ sFetched' = Append(sFetched, [page |-> sPage, ok |-> FALSE, recs |-> <<>>])
    /\ sPc' = "dedup"
    /\ UNCHANGED <<sAdapter, sStart, sEnd, sPage, sCompanies, sResult>>

\* One iteration of the page loop whose fetch succeeds: the page's records
\* are appended to companies.
SearchPageOk ==
    /\ UNCHANGED notSearch
    /\ sPc = "page"
    /\ \E cards \in SeqsUpTo(Cards(sAdapter), MaxCards - Len(sCompanies)) :
        LET recs == ParsePage(sAdapter, cards) IN
        /\ sCompanies' = sCompanies \o recs
        /\ sFetched' = Append(sFetched, [page |-> sPage, ok |-> TRUE, recs |-> recs])
    /\ sPc' = AfterPage
    /\ UNCHANGED <<sAdapter, sStart, sEnd, sPage, sResult>>

\* One iteration whose fetch fails (network error, timeout, non-2xx):
\* BaseCrawler.fetch returns None and _search_page returns [].
SearchPageFails ==
    /\ UNCHANGED notSearch
    /\ sPc = "page"
    /\ sFetched' = Append(sFetched, [page |-> sPage, ok |-> FALSE, recs |-> <<>>])
    /\ sPc' = AfterPage
    /\ UNCHANGED <<sAdapter, sStart, sEnd, sPage, sCompanies, sResult>>

\* asyncio.sleep(0.5) between pages, then the next page.
SearchSleep ==
    /\ UNCHANGED notSearch
    /\ sPc = "sleep"
    /\ sPage' = sPage + 1
    /\ sPc' = "page"
    /\ UNCHANGED <<sAdapter, sStart, sEnd, sCompanies, sFetched, sResult>>

\* The dedup loop and the return.
SearchDedup ==
    /\ UNCHANGED notSearch
    /\ sPc = "dedup"
    /\ sResult' = UniqueCompanies(sAdapter, sCompanies)
    /\ sPc' = "done"
    /\ UNCHANGED <<sAdapter, sStart, sEnd, sPage, sCompanies, sFetched>>

SearchNext ==
    \/ SearchPageOk
    \/ SearchPageFails
    \/ SearchSleep
    \/ SearchDedup

----------------------------------------------------------------------------
(* SpecWanted: WantedCrawler.search *)

MaxRaw == 25
MaxBad == 1
MaxWantedPage == 3

\* items_per_page of WantedCrawler.search.
ItemsPerPage == 10

Min(a, b) == IF a <= b THEN a ELSE b
Max(a, b) == IF a >= b THEN a ELSE b

\* The subsets of S of at most k elements.
RECURSIVE SmallSubsets(_, _)
SmallSubsets(S, k) ==
    IF k = 0 THEN {{}}
    ELSE LET prev == SmallSubsets(S, k - 1)
         IN prev \cup { b \cup {x} : b \in prev, x \in S }

\* A raw result list of n items: the item at position i has id i and a
\* name, but for the positions of bad, which lack the id (0) or the name ('').
RawList(n, bad, lacks) ==
    [i \in 1..n |->
        IF i \notin bad THEN [id |-> i, name |-> "co"]
        ELSE IF lacks[i] = "id" THEN [id |-> 0, name |-> "co"]
        ELSE [id |-> i, name |-> ""]]

RawLists ==
    UNION { { RawList(n, bad, lacks) : lacks \in [bad -> {"id", "name"}] } :
              n \in 0..MaxRaw, bad \in SmallSubsets(1..MaxRaw, MaxBad) }

\* not company_id or not company_name
Rejected(item) == item.id = 0 \/ item.name = ""

WantedCompany(item) ==
    [company_name |-> item.name,
     api_id       |-> item.id,
     job_url      |-> None,
     homepage     |-> None,
     emails       |-> {}]

\* The item loop: one record per raw item that has an id and a name.
AcceptedCompanies(raw) ==
    LET kept == SelectSeq(raw, LAMBDA item : ~Rejected(item))
    IN [i \in 1..Len(kept) |-> WantedCompany(kept[i])]

\* s[a:b] of Python, for 0 <= a and 0 <= b.
PySlice(s, a, b) == SubSeq(s, Min(a, Len(s)) + 1, Min(b, Len(s)))

\* A slice that starts one page late.
WantedPageLate(cs, sp, ep) ==
    PySlice(cs, sp * ItemsPerPage, ep * ItemsPerPage)

\* companies[start_idx:end_idx]
WantedPage(cs, sp, ep) ==
    PySlice(cs, (sp - 1) * ItemsPerPage, ep * ItemsPerPage)

WantedInit ==
    /\ wPc = "fetch"
    /\ wStart \in 1..MaxWantedPage
    /\ wEnd \in wStart..MaxWantedPage
    /\ wHasData = FALSE
    /\ wRaw = <<>>
    /\ wCompanies = <<>>
    /\ wResult = <<>>

\* fetch_json returns the search response with its list of companies.
WantedFetch ==
    /\ UNCHANGED notWanted
    /\ wPc = "fetch"
    /\ wRaw' \in RawLists
    /\ wHasData' = TRUE
    /\ wPc' = "parse"
    /\ UNCHANGED <<wStart, wEnd, wCompanies, wResult>>

\* fetch_json returns None, or a response without data.companies: return [].
WantedNoData ==
    /\ UNCHANGED notWanted
    /\ wPc = "fetch"
    /\ wResult' = <<>>
    /\ wPc' = "done"
    /\ UNCHANGED <<wStart, wEnd, wHasData, wRaw, wCompanies>>

\* The loop over raw_companies.
WantedParse ==
    /\ UNCHANGED notWanted
    /\ wPc = "parse"
    /\ wCompanies' = AcceptedCompanies(wRaw)
    /\ wPc' = "slice"
    /\ UNCHANGED <<wStart, wEnd, wHasData, wRaw, wResult>>

\* return companies[start_idx:end_idx]
WantedSlice ==
    /\ UNCHANGED notWanted
    /\ wPc = "slice"
    /\ wResult' = WantedPage(wCompanies, wStart, wEnd)
    /\ wPc' = "done"
    /\ UNCHANGED <<wStart, wEnd, wHasData, wRaw, wCompanies>>

WantedNext ==
    \/ WantedFetch
    \/ WantedNoData
    \/ WantedParse
    \/ WantedSlice

----------------------------------------------------------------------------
(* SpecContact: EmailExtractor.extract_from_url on one homepage *)

MaxAnchors == 4

\* The number of contact pages extract_from_url fetches: contact_urls[:3].
ContactCap == 3

\* The homepage, and the anchors a homepage may hold, each by whether its
\* text or href holds a contact keyword and by urljoin(base_url, href).
HomeUrl == [host |-> "site", path |-> "/"]

AnchorPool ==
    { [kw |-> TRUE, url |-> [host |-> "site", path |-> p]] :
        p \in {"/", "/a", "/b", "/c"} }
    \cup { [kw |-> TRUE, url |-> [host |-> "other", path |-> "/a"]],
           [kw |-> FALSE, url |-> [host |-> "site", path |-> "/a"]] }

\* The addresses a page may yield.
PageEmails == {"e1"}

\* The anchor loop of _find_contact_pages: a keyword anchor of the
\* homepage's host is appended unless its URL is in the list already.
RECURSIVE FindContacts(_, _, _)
FindContacts(base, anchors, acc) ==
    IF anchors = <<>> THEN acc
    ELSE LET a == Head(anchors) IN
         IF /\ a.kw
            /\ a.url.host = base.host
            /\ \A k \in 1..Len(acc) : acc[k] # a.url
         THEN FindContacts(base, Tail(anchors), Append(acc, a.url))
         ELSE FindContacts(base, Tail(anchors), acc)

\* Every contact page found is fetched.
PagesToFetchAll(urls) == urls

\* contact_urls[:3]
PagesToFetch(urls) == SubSeq(urls, 1, Min(ContactCap, Len(urls)))

Request(u, role, ok) == [url |-> u, role |-> role, ok |-> ok]

ContactInit ==
    /\ xPc = "main"
    /\ xAnchors = <<>>
    /\ xContacts = <<>>
    /\ xNext = 0
    /\ xFetches = <<>>
    /\ xEmails = {}

\* _extract_from_page(client, url) on the homepage: its emails, or set()
\* when the request fails.
ExtractMain ==
    /\ UNCHANGED notContact
    /\ xPc = "main"
    /\ \/ \E es \in SUBSET PageEmails :
            /\ xEmails' = xEmails \cup es
            /\ xFetches' = Append(xFetches, Request(HomeUrl, "main", TRUE))
       \/ /\ xFetches' = Append(xFetches, Request(HomeUrl, "main", FALSE))
          /\ UNCHANGED xEmails
    /\ xPc' = "find"
    /\ UNCHANGED <<xAnchors, xContacts, xNext>>

\* _find_contact_pages(client, url): the homepage is requested again and
\* its anchors give contact_urls; [] when the request fails.
FindContactPages ==
    /\ UNCHANGED notContact
    /\ xPc = "find"
    /\ \/ \E anchors \in SeqsUpTo(AnchorPool, MaxAnchors) :
            /\ xAnchors' = anchors
            /\ xContacts' = FindContacts(HomeUrl, anchors, <<>>)
            /\ xFetches' = Append(xFetches, Request(HomeUrl, "find", TRUE))
       \/ /\ xFetches' = Append(xFetches, Request(HomeUrl, "find", FALSE))
          /\ UNCHANGED <<xAnchors, xContacts>>
    /\ xNext' = 1
    /\ xPc' = IF PagesToFetch(xContacts') = <<>> THEN "done" ELSE "contact"
    /\ UNCHANGED xEmails

\* One iteration of the loop over contact_urls[:3].
ExtractContact ==
    /\ UNCHANGED notContact
    /\ xPc = "contact"
    /\ LET u == PagesToFetch(xContacts)[xNext] IN
        \/ \E es \in SUBSET PageEmails :
            /\ xEmails' = xEmails \cup es
            /\ xFetches' = Append(xFetches, Request(u, "contact", TRUE))
        \/ /\ xFetches' = Append(xFetches, Request(u, "contact", FALSE))
           /\ UNCHANGED xEmails
    /\ xNext' = xNext + 1
    /\ xPc' = IF xNext + 1 > Len(PagesToFetch(xContacts))
              THEN "done" ELSE "contact"
    /\ UNCHANGED <<xAnchors, xContacts>>

ContactNext ==
    \/ ExtractMain
    \/ FindContactPages
    \/ ExtractContact

----------------------------------------------------------------------------
(* SpecEmail: EMAIL_PATTERN, _is_valid_email, _extract_emails and      *)
(* _extract_from_page of EmailExtractor.  A text is a sequence of      *)
(* one-character strings.                                              *)

MaxFrags == 4
MaxWords == 2
MaxEmailPages == 2

LowerAlpha ==
    <<"a", "b", "c", "d", "e", "f", "g", "h", "i", "j", "k", "l", "m",
      "n", "o", "p", "q", "r", "s", "t", "u", "v", "w", "x", "y", "z">>
UpperAlpha ==
    <<"A", "B", "C", "D", "E", "F", "G", "H", "I", "J", "K", "L", "M",
      "N", "O", "P", "Q", "R", "S", "T", "U", "V", "W", "X", "Y", "Z">>
DigitChars == {"0", "1", "2", "3", "4", "5", "6", "7", "8", "9"}
Whitespace == {" ", "\n", "\t"}

IsUpper(c) == \E i \in 1..Len(UpperAlpha) : c = UpperAlpha[i]
IsLetter(c) == IsUpper(c) \/ \E i \in 1..Len(LowerAlpha) : c = LowerAlpha[i]

\* str.lower()
LowerChar(c) ==
    IF IsUpper(c)
    THEN LowerAlpha[CHOOSE i \in 1..Len(UpperAlpha) : c = UpperAlpha[i]]
    ELSE c
Lower(s) == [i \in 1..Len(s) |-> LowerChar(s[i])]

\* A local-part class that lets a blank through.
IsLocalCharLoose(c) ==
    IsLetter(c) \/ c \in DigitChars \/ c \in {".", "_", "%", "+", "-", " "}

\* [a-zA-Z0-9._%+-]
IsLocalChar(c) ==
    IsLetter(c) \/ c \in DigitChars \/ c \in {".", "_", "%", "+", "-"}

\* [a-zA-Z0-9.-]
IsDomainChar(c) == IsLetter(c) \/ c \in DigitChars \/ c \in {".", "-"}

MaxOf(S) == CHOOSE m \in S : \A n \in S : n <= m
MinOf(S) == CHOOSE m \in S : \A n \in S : m <= n

\* The character classes of EMAIL_PATTERN, by name.
InClass(c, class) ==
    IF class = "local" THEN IsLocalChar(c)
    ELSE IF class = "domain" THEN IsDomainChar(c)
    ELSE IsLetter(c)

\* The last position of the longest run of characters of the class that
\* starts at position i of t; i - 1 when t[i] is not of the class.
RunEnd(t, i, class) ==
    LET stops == {j \in i..Len(t) : ~InClass(t[j], class)} IN
    IF i > Len(t) THEN i - 1
    ELSE IF stops = {} THEN Len(t) ELSE MinOf(stops) - 1

\* EMAIL_PATTERN matched at position i of t: the position of the match's
\* last character, 0 when there is no match at i.  The local part takes
\* its whole run (only "@" may follow it); the domain part gives back
\* characters until a "." and two letters follow it; the TLD then takes
\* its whole run of letters.
MatchEnd(t, i) ==
    LET le == RunEnd(t, i, "local")
        ds == le + 2
        de == RunEnd(t, ds, "domain")
        dots == {k \in ds..(de - 3) :
                    t[k + 1] = "." /\ IsLetter(t[k + 2]) /\ IsLetter(t[k + 3])}
    IN  IF le < i \/ le + 1 > Len(t) THEN 0
        ELSE IF t[le + 1] # "@" \/ dots = {} THEN 0
        ELSE RunEnd(t, MaxOf(dots) + 2, "letter")

\* EMAIL_PATTERN.findall(text): leftmost matches, none overlapping.
RECURSIVE FindAll(_, _)
FindAll(t, i) ==
    IF i > Len(t) THEN <<>>
    ELSE LET e == MatchEnd(t, i) IN
         IF e > 0 THEN <<SubSeq(t, i, e)>> \o FindAll(t, e + 1)
         ELSE FindAll(t, i + 1)

\* p in s
Contains(s, p) ==
    \E i \in 0..(Len(s) - Len(p)) : SubSeq(s, i + 1, i + Len(p)) = p

InvalidExtensions ==
    { <<".", "p", "n", "g">>, <<".", "j", "p", "g">>,
      <<".", "j", "p", "e", "g">>, <<".", "g", "i", "f">>,
      <<".", "s", "v", "g">>, <<".", "w", "e", "b", "p">>,
      <<".", "c", "s", "s">>, <<".", "j", "s">> }

ExampleToken == <<"e", "x", "a", "m", "p", "l", "e">>
TestToken == <<"t", "e", "s", "t", "@">>

\* The shortest domain part _is_valid_email accepts.
MinDomainLen == 4

\* A domain of MinDomainLen characters is too short as well.
DomainTooShortStrict(d) == Len(d) <= MinDomainLen

\* len(parts[1]) < 4
DomainTooShort(d) == Len(d) < MinDomainLen

\* _is_valid_email
IsValidEmail(email) ==
    LET email_lower == Lower(email)
        ats == {i \in 1..Len(email_lower) : email_lower[i] = "@"}
    IN  /\ ~\E ext \in InvalidExtensions : Contains(email_lower, ext)
        /\ ~Contains(email_lower, ExampleToken)
        /\ ~Contains(email_lower, TestToken)
        /\ Cardinality(ats) = 1
        /\ ~DomainTooShort(SubSeq(email_lower, MaxOf(ats) + 1,
                                  Len(email_lower)))

SeqRange(s) == {s[i] : i \in 1..Len(s)}

\* _extract_emails
ExtractEmails(text) ==
    IF text = <<>> THEN {}
    ELSE {email \in SeqRange(FindAll(text, 1)) : IsValidEmail(email)}

MailtoPrefix == <<"m", "a", "i", "l", "t", "o", ":">>

\* s.startswith(p)
StartsWith(s, p) == Len(s) >= Len(p) /\ SubSeq(s, 1, Len(p)) = p

\* s.replace(p, '')
RECURSIVE RemoveAll(_, _)
RemoveAll(s, p) ==
    IF Len(s) < Len(p) \/ p = <<>> THEN s
    ELSE IF StartsWith(s, p)
         THEN RemoveAll(SubSeq(s, Len(p) + 1, Len(s)), p)
         ELSE <<Head(s)>> \o RemoveAll(Tail(s), p)

\* s.split('?')[0]
BeforeQuery(s) ==
    LET qs == {i \in 1..Len(s) : s[i] = "?"} IN
    IF qs = {} THEN s ELSE SubSeq(s, 1, MinOf(qs) - 1)

\* s.strip()
Strip(s) ==
    LET solid == {i \in 1..Len(s) : s[i] \notin Whitespace} IN
    IF solid = {} THEN <<>> ELSE SubSeq(s, MinOf(solid), MaxOf(solid))

\* href.replace('mailto:', '').split('?')[0].strip()
MailtoAddress(href) == Strip(BeforeQuery(RemoveAll(href, MailtoPrefix)))

RECURSIVE Flatten(_)
Flatten(ss) == IF ss = <<>> THEN <<>> ELSE Head(ss) \o Flatten(Tail(ss))

\* The words of ws with sep between them.
RECURSIVE JoinWith(_, _)
JoinWith(ws, sep) ==
    IF ws = <<>> THEN <<>>
    ELSE IF Len(ws) = 1 THEN ws[1]
    ELSE ws[1] \o sep \o JoinWith(Tail(ws), sep)

\* response.text of a page with the given text and anchors: each href
\* stands in the markup between the quotes of its attribute.
RawHtml(page) ==
    page.body \o Flatten([i \in 1..Len(page.hrefs) |->
                              <<"\"">> \o page.hrefs[i] \o <<"\"">>])

\* The addresses of the mailto: anchors that _is_valid_email accepts.
MailtoEmails(page) ==
    {MailtoAddress(page.hrefs[i]) :
        i \in {j \in 1..Len(page.hrefs) :
                 /\ StartsWith(page.hrefs[j], MailtoPrefix)
                 /\ IsValidEmail(MailtoAddress(page.hrefs[j]))}}

\* _extract_from_page on a response that arrived
ExtractFromPage(page) == ExtractEmails(RawHtml(page)) \cup MailtoEmails(page)

\* The input texts: every text of up to MaxFrags fragments, and the texts of
\* up to MaxWords whole words with a separator between them.
Frags ==
    { <<"a">>, <<"A">>, <<"@">>, <<" ">>, <<".", "c", "o">>, <<".", "c">>,
      <<".", "j", "s">>, <<"t", "e", "s", "t">> }

A_B_CO == <<"a", "@", "b", ".", "c", "o">>
A_B_C == <<"a", "@", "b", ".", "c">>
A_BC_CO == <<"a", "@", "b", "c", ".", "c", "o">>
UpperA_B_CO == <<"A", "@", "b", ".", "c", "o">>
USER_EXAMPLE_COM ==
    <<"u", "s", "e", "r", "@", "e", "x", "a", "m", "p", "l", "e", ".",
      "c", "o", "m">>
A_BCDE == <<"a", "@", "b", "c", "d", "e">>

Words == {A_B_CO, A_B_C, A_BC_CO, UpperA_B_CO, USER_EXAMPLE_COM, A_BCDE}

Separators == { <<" ">>, <<",", " ">> }

FragTexts == {Flatten(fs) : fs \in SeqsUpTo(Frags, MaxFrags)}

WordTexts ==
    {JoinWith(ws, sep) : ws \in SeqsUpTo(Words, MaxWords), sep \in Separators}

Texts == FragTexts \cup WordTexts

\* The pages of an extraction: a text of at most one word and at most one
\* anchor, whose href is a mailto: link (bare or with a query) or a path.
PageBodies == { <<>> } \cup Words

Hrefs ==
    {MailtoPrefix \o w : w \in Words}
    \cup {MailtoPrefix \o <<" ">> \o w \o <<"?", "s">> : w \in Words}
    \cup { <<"/", "a">> }

Pages ==
    {[body |-> b, hrefs |-> hs] : b \in PageBodies, hs \in SeqsUpTo(Hrefs, 1)}

\* The orders in which the elements of a finite set can be written down.
Orderings(S) ==
    {f \in [1..Cardinality(S) -> S] : \A x \in S : \E i \in DOMAIN f : f[i] = x}

EmailInit ==
    /\ \/ ePc = "text" /\ eText \in Texts
       \/ ePc = "main" /\ eText = <<>>
    /\ eValid = {}
    /\ eAgain = {}
    /\ ePages = <<>>
    /\ eEmails = {}

\* _extract_emails(text)
Validate ==
    /\ UNCHANGED notEmail
    /\ ePc = "text"
    /\ eValid' = ExtractEmails(eText)
    /\ ePc' = "validated"
    /\ UNCHANGED <<eText, eAgain, ePages, eEmails>>

\* _extract_emails on the text that lists the addresses of eValid
Revalidate ==
    /\ UNCHANGED notEmail
    /\ ePc = "validated"
    /\ \E ws \in Orderings(eValid), sep \in Separators :
          eAgain' = ExtractEmails(JoinWith(ws, sep))
    /\ ePc' = "revalidated"
    /\ UNCHANGED <<eText, eValid, ePages, eEmails>>

\* emails.update(await self._extract_from_page(client, url)) for the
\* homepage (line 53) and for a contact page (line 59).
EmailPage ==
    /\ UNCHANGED notEmail
    /\ ePc \in {"main", "contact"}
    /\ Len(ePages) < MaxEmailPages
    /\ \E page \in Pages : eEmails' = eEmails \cup ExtractFromPage(page)
    /\ ePages' = Append(ePages, "ok")
    /\ ePc' = "contact"
    /\ UNCHANGED <<eText, eValid, eAgain>>

\* _extract_from_page when the request or the parsing raises: set()
EmailPageFails ==
    /\ UNCHANGED notEmail
    /\ ePc \in {"main", "contact"}
    /\ Len(ePages) < MaxEmailPages
    /\ ePages' = Append(ePages, "failed")
    /\ ePc' = "contact"
    /\ UNCHANGED <<eText, eValid, eAgain, eEmails>>

\* return list(emails), after the last contact page
EmailReturn ==
    /\ UNCHANGED notEmail
    /\ ePc = "contact"
    /\ ePc' = "done"
    /\ UNCHANGED <<eText, eValid, eAgain, ePages, eEmails>>

EmailNext ==
    \/ Validate
    \/ Revalidate
    \/ EmailPage
    \/ EmailPageFails
    \/ EmailReturn

----------------------------------------------------------------------------
(* SpecDetail: homepage resolution (get_company_detail) and the JobKorea *)
(* job-page hop (_get_company_url_from_job)                              *)

MaxLinks == 2

\* An href by what the code asks of it: href.startswith('http') and the
\* domain it names.  NoHomepage is Python's None as a homepage.
Href(http, host) == [http |-> http, host |-> host]
NoHomepage == Href(FALSE, None)

SaraminDomain == "saramin.co.kr"

\* exclude_domains of JobKoreaCrawler.get_company_detail
ExcludeDomains ==
    {"jobkorea.co.kr", "albamon.com", "gamejob.co.kr", "ninehire.com",
     "klik.co.kr", "naver.com", "facebook.com", "instagram.com",
     "youtube.com", "notion.site", "oopy.io", "google.com", "daum.net",
     "kakao.com", "nicebizinfo.com", "dataline.co.kr"}

\* The hrefs of a Saramin company page: two external sites, a link back to
\* Saramin and a relative link.
SaraminHrefs ==
    {Href(TRUE, "x.com"), Href(TRUE, "y.com"), Href(TRUE, SaraminDomain),
     Href(FALSE, "x.com")}

\* An anchor of a Saramin company page, with the methods whose query
\* reaches it: 1 the first link of the dd after a dt.tit holding the label,
\* 2 an element of dl.company_details a.ellipsis, 3 a link whose text holds a
\* keyword, 4 the first link of an info item.
SaraminAnchors ==
    {[href |-> h, via |-> v] :
        h \in SaraminHrefs, v \in {w \in SUBSET (1..4) : Cardinality(w) <= 2}}

\* An anchor of a JobKorea company page; labelled: find_next reaches it from
\* the parent of a string holding the label.
JobKoreaAnchors ==
    {[href |-> h, labelled |-> l] :
        h \in {Href(TRUE, "x.com"), Href(TRUE, "y.com"),
               Href(TRUE, "jobkorea.co.kr"), Href(TRUE, "naver.com"),
               Href(FALSE, "x.com")},
        l \in BOOLEAN}

\* The JSON documents of the Wanted company endpoint: without the company
\* detail, without a link, with a link that has a scheme or has none.
WantedDocs ==
    { <<[detail |-> FALSE, link |-> NoHomepage]>>,
      <<[detail |-> TRUE, link |-> NoHomepage]>>,
      <<[detail |-> TRUE, link |-> Href(TRUE, "x.com")]>>,
      <<[detail |-> TRUE, link |-> Href(FALSE, "x.com")]>> }

\* A job page by whether it holds a /Recruit/Co_Read/C/<id> path.
HopDocs == { <<[co_read |-> FALSE]>>, <<[co_read |-> TRUE]>> }

Docs(adapter, op) ==
    IF op = "hop" THEN HopDocs
    ELSE IF adapter = "saramin" THEN SeqsUpTo(SaraminAnchors, MaxLinks)
    ELSE IF adapter = "jobkorea" THEN SeqsUpTo(JobKoreaAnchors, MaxLinks)
    ELSE WantedDocs

\* href.startswith('http') and 'saramin.co.kr' not in href
SaraminAccepts(h) == h.http /\ h.host # SaraminDomain

\* not any(d in href for d in exclude_domains)
JobKoreaAccepts(h) == h.host \notin ExcludeDomains

\* The href of the first of the anchors of doc at the positions hits, or
\* None.
FirstHref(doc, hits) ==
    IF hits = {} THEN NoHomepage ELSE doc[MinOf(hits)].href

\* The last method that found a homepage gives the result.
LastSuccess(cands) ==
    LET hits == {i \in 1..Len(cands) : cands[i] # NoHomepage} IN
    IF hits = {} THEN NoHomepage ELSE cands[MaxOf(hits)]

\* homepage = None, then each method under "if not homepage": the first
\* method that found a homepage gives the result.
FirstSuccess(cands) ==
    LET hits == {i \in 1..Len(cands) : cands[i] # NoHomepage} IN
    IF hits = {} THEN NoHomepage ELSE cands[MinOf(hits)]

\* Method 1 of Saramin: the labelled dt elements in order, the first link
\* of each one's dd.
SaraminLabelled(doc) ==
    FirstHref(doc, {i \in 1..Len(doc) :
                      1 \in doc[i].via /\ SaraminAccepts(doc[i].href)})

\* Method 2: select_one('dl.company_details a.ellipsis'), the first element
\* of the selector and no other.
SaraminSelector(doc) ==
    LET link == FirstHref(doc, {i \in 1..Len(doc) : 2 \in doc[i].via})
    IN  IF link # NoHomepage /\ SaraminAccepts(link) THEN link
        ELSE NoHomepage

\* Method 3: the links of a[href^="http"] whose text holds a keyword.
SaraminKeyword(doc) ==
    FirstHref(doc, {i \in 1..Len(doc) :
                      /\ doc[i].href.http
                      /\ 3 \in doc[i].via
                      /\ doc[i].href.host # SaraminDomain})

\* Method 4: the info items in order, the first link of each.
SaraminInfoTable(doc) ==
    FirstHref(doc, {i \in 1..Len(doc) :
                      4 \in doc[i].via /\ SaraminAccepts(doc[i].href)})

SaraminMethods(doc) ==
    <<SaraminLabelled(doc), SaraminSelector(doc), SaraminKeyword(doc),
      SaraminInfoTable(doc)>>

\* SaraminCrawler.get_company_detail on a fetched page
SaraminHomepage(doc) == FirstSuccess(SaraminMethods(doc))

\* JobKoreaCrawler.get_company_detail on a fetched page
JobKoreaHomepage(doc) ==
    LET valid == {i \in 1..Len(doc) :
                    doc[i].href.http /\ JobKoreaAccepts(doc[i].href)}
    IN  FirstSuccess(<<FirstHref(doc, {i \in valid : doc[i].labelled}),
                       FirstHref(doc, valid)>>)

\* WantedCrawler.get_company_detail on a fetched document
WantedHomepage(doc) ==
    LET data == doc[1] IN
    IF ~data.detail \/ data.link = NoHomepage THEN NoHomepage
    ELSE IF data.link.http THEN data.link
    ELSE Href(TRUE, data.link.host)

ResolveHomepage(adapter, doc) ==
    IF adapter = "saramin" THEN SaraminHomepage(doc)
    ELSE IF adapter = "jobkorea" THEN JobKoreaHomepage(doc)
    ELSE WantedHomepage(doc)

DetailInit ==
    /\ dPc = "call"
    /\ dAdapter \in {"saramin", "jobkorea", "wanted"}
    /\ dOp \in IF dAdapter = "jobkorea" THEN {"detail", "hop"} ELSE {"detail"}
    /\ dDoc = <<>>
    /\ dFailure = "none"
    /\ dHomepage = NoHomepage
    /\ dCompanyUrl = None

\* The fetch fails: BaseCrawler.fetch and fetch_json return None and the
\* call returns None.
DetailFetchFails ==
    /\ UNCHANGED notDetail
    /\ dPc = "call"
    /\ dFailure' = "fetch"
    /\ dPc' = "done"
    /\ UNCHANGED <<dAdapter, dOp, dDoc, dHomepage, dCompanyUrl>>

\* The fetch returns a page.
DetailFetchOk ==
    /\ UNCHANGED notDetail
    /\ dPc = "call"
    /\ dDoc' \in Docs(dAdapter, dOp)
    /\ dPc' = "parse"
    /\ UNCHANGED <<dAdapter, dOp, dFailure, dHomepage, dCompanyUrl>>

\* The page is interpreted and the result returned.
DetailParse ==
    /\ UNCHANGED notDetail
    /\ dPc = "parse"
    /\ IF dOp = "hop"
       THEN /\ dCompanyUrl' = IF dDoc[1].co_read THEN "url" ELSE None
            /\ UNCHANGED dHomepage
       ELSE /\ dHomepage' = ResolveHomepage(dAdapter, dDoc)
            /\ UNCHANGED dCompanyUrl
    /\ dPc' = "done"
    /\ UNCHANGED <<dAdapter, dOp, dDoc, dFailure>>

\* Interpreting the page raises (the parser rejects the markup, a query
\* exhausts the stack, the JSON has another shape).  WantedCrawler wraps
\* its whole body in try/except and returns None; the Saramin and JobKorea
\* methods parse outside any handler.  The hop applies re.search to a str.
DetailParseRaises ==
    /\ UNCHANGED notDetail
    /\ dPc = "parse"
    /\ dOp = "detail"
    /\ dFailure' = "parse"
    /\ dPc' = IF dAdapter = "wanted" THEN "done" ELSE "raised"
    /\ UNCHANGED <<dAdapter, dOp, dDoc, dHomepage, dCompanyUrl>>

DetailNext ==
    \/ DetailFetchFails
    \/ DetailFetchOk
    \/ DetailParse
    \/ DetailParseRaises

----------------------------------------------------------------------------
(* SpecRequest: request validation and dispatch at the two entry points *)

MaxReqPage == 2

\* The adapters the server can dispatch to, and the sources of a request:
\* the three adapter names and one name that is none of them.
ServerAdapters == {"saramin", "jobkorea"}
RequestSources == {"saramin", "jobkorea", "wanted", "other"}

\* request.keyword: blank, or a keyword.
RequestKeywords == {" ", "kw"}

\* request.start_page, request.end_page: any int.
RequestPages == (0 - 1)..MaxReqPage

\* not request.keyword.strip()
BlankKeyword(k) == k \in {"", " "}

\* crawl_stream checks the keyword only.
StreamRejects(k, sp, ep) == BlankKeyword(k)

\* The checks of crawl ahead of its try block.
BatchRejects(k, sp, ep) == BlankKeyword(k) \/ sp < 1 \/ ep < 1 \/ sp > ep

RequestInit ==
    /\ qPc = "validate"
    /\ qEndpoint \in {"batch", "stream"}
    /\ qKeyword \in RequestKeywords
    /\ qStart \in RequestPages
    /\ qEnd \in RequestPages
    /\ qSource \in RequestSources
    /\ qStatus = 0
    /\ qAdapter = None
    /\ qPage = 0
    /\ qFetches = <<>>
    /\ qOutput = <<>>

\* The checks at the head of the endpoint: HTTPException(400), or on to the
\* try block (crawl) or to the StreamingResponse over generate() (status 200).
ReqValidate ==
    /\ UNCHANGED notRequest
    /\ qPc = "validate"
    /\ IF \/ qEndpoint = "batch" /\ BatchRejects(qKeyword, qStart, qEnd)
          \/ qEndpoint = "stream" /\ StreamRejects(qKeyword, qStart, qEnd)
       THEN qStatus' = 400 /\ qPc' = "done"
       ELSE /\ qStatus' = IF qEndpoint = "stream" THEN 200 ELSE 0
            /\ qPc' = "select"
    /\ UNCHANGED <<qEndpoint, qKeyword, qStart, qEnd, qSource, qAdapter,
                   qPage, qFetches, qOutput>>

\* The crawler class of the source.  For another source crawl raises
\* HTTPException(400) inside its try block, whose "except Exception" turns
\* it into HTTPException(500); generate yields an error event and returns.
ReqSelect ==
    /\ UNCHANGED notRequest
    /\ qPc = "select"
    /\ IF qSource \in ServerAdapters
       THEN /\ qAdapter' = qSource
            /\ qPage' = qStart
            /\ qPc' = "search"
            /\ UNCHANGED <<qStatus, qOutput>>
       ELSE /\ qStatus' = IF qEndpoint = "batch" THEN 500 ELSE qStatus
            /\ qOutput' = IF qEndpoint = "stream"
                          THEN Append(qOutput, ErrorEvent("unsupported source"))
                          ELSE qOutput
            /\ qPc' = "done"
            /\ UNCHANGED <<qAdapter, qPage>>
    /\ UNCHANGED <<qEndpoint, qKeyword, qStart, qEnd, qSource, qFetches>>

\* search: for page in range(start_page, end_page + 1), one fetch.
ReqSearchPage ==
    /\ UNCHANGED notRequest
    /\ qPc = "search"
    /\ qPage <= qEnd
    /\ qFetches' = Append(qFetches, qPage)
    /\ qPage' = qPage + 1
    /\ UNCHANGED <<qPc, qEndpoint, qKeyword, qStart, qEnd, qSource, qStatus,
                   qAdapter, qOutput>>

\* The search has returned: generate yields the start event; crawl goes on
\* to return the result list with status 200.
ReqSearchDone ==
    /\ UNCHANGED notRequest
    /\ qPc = "search"
    /\ qPage > qEnd
    /\ IF qEndpoint = "stream"
       THEN /\ \E n \in 0..Len(qFetches) :
                    qOutput' = Append(qOutput, StartEvent(n))
            /\ UNCHANGED qStatus
       ELSE /\ qOutput' = Append(qOutput, [type |-> "result"])
            /\ qStatus' = 200
    /\ qPc' = "done"
    /\ UNCHANGED <<qEndpoint, qKeyword, qStart, qEnd, qSource, qAdapter,
                   qPage, qFetches>>

\* The run raises (the client cannot be opened, the search raises): crawl
\* answers 500, generate yields an error event.
ReqRunRaises ==
    /\ UNCHANGED notRequest
    /\ qPc = "search"
    /\ \E m \in ExcMsgs :
        IF qEndpoint = "stream"
        THEN /\ qOutput' = Append(qOutput, ErrorEvent(m))
             /\ UNCHANGED qStatus
        ELSE /\ qStatus' = 500
             /\ UNCHANGED qOutput
    /\ qPc' = "done"
    /\ UNCHANGED <<qEndpoint, qKeyword, qStart, qEnd, qSource, qAdapter,
                   qPage, qFetches>>

RequestNext ==
    \/ ReqValidate
    \/ ReqSelect
    \/ ReqSearchPage
    \/ ReqSearchDone
    \/ ReqRunRaises

----------------------------------------------------------------------------
(* SpecCard: job title and company name of one JobKorea job card *)

MaxCardLinks == 4

\* link.get_text() of the links of a card: blank, or one or two characters.
LinkTexts ==
    { <<" ">>, <<"a">>, <<"b">>, <<"c", "d">>, <<"e", "f">> }

\* Insert x into the list s, ascending by length, behind every element that
\* is not longer.
RECURSIVE InsertAscLen(_, _)
InsertAscLen(s, x) ==
    IF s = <<>> THEN <<x>>
    ELSE IF Len(s[Len(s)]) <= Len(x) THEN Append(s, x)
    ELSE Append(InsertAscLen(SubSeq(s, 1, Len(s) - 1), x), s[Len(s)])

RECURSIVE StableSortAscLen(_)
StableSortAscLen(s) ==
    IF s = <<>> THEN <<>>
    ELSE InsertAscLen(StableSortAscLen(SubSeq(s, 1, Len(s) - 1)), s[Len(s)])

\* A descending sort that reverses an ascending one: equal lengths swap.
SortByLenUnstable(s) == Reverse(StableSortAscLen(s))

\* text_links.sort(key=lambda x: len(x[0]), reverse=True): equal lengths
\* keep their order.
SortByLen(s) == Reverse(StableSortAscLen(Reverse(s)))

\* [link.get_text(strip=True) for link in links if link.get_text(strip=True)]
RECURSIVE TextLinks(_)
TextLinks(links) ==
    IF links = <<>> THEN <<>>
    ELSE IF Strip(Head(links)) # <<>>
         THEN <<Strip(Head(links))>> \o TextLinks(Tail(links))
         ELSE TextLinks(Tail(links))

CardInit ==
    /\ kPc = "card"
    /\ kLinks \in SeqsUpTo(LinkTexts, MaxCardLinks)
    /\ kTitle = <<>>
    /\ kCompany = <<>>

\* Fewer than two links, or fewer than two with a text: the card is skipped.
CardSkip ==
    /\ UNCHANGED notCard
    /\ kPc = "card"
    /\ Len(kLinks) < 2 \/ Len(TextLinks(kLinks)) < 2
    /\ kPc' = "skipped"
    /\ UNCHANGED <<kLinks, kTitle, kCompany>>

\* The links with a text are sorted by length, longest first: the first
\* gives job_title, the last company_name.
CardParse ==
    /\ UNCHANGED notCard
    /\ kPc = "card"
    /\ Len(kLinks) >= 2 /\ Len(TextLinks(kLinks)) >= 2
    /\ LET text_links == SortByLen(TextLinks(kLinks)) IN
        /\ kTitle' = text_links[1]
        /\ kCompany' = text_links[Len(text_links)]
    /\ kPc' = "parsed"
    /\ UNCHANGED kLinks

CardNext ==
    \/ CardSkip
    \/ CardParse

----------------------------------------------------------------------------
(* SpecClient: the HTTP clients of one run.  The adapter's client lives   *)
(* in the `async with crawler_class()` block of the entry point, the      *)
(* client of an extraction in the `async with httpx.AsyncClient(...)`     *)
(* block of extract_from_url.                                             *)

MaxClientRecs == 3

\* What may end an await: an exception, or the cancellation of the task.
\* CancelledError and GeneratorExit are not caught by `except Exception`.
AwaitFailures == {"Exception", "CancelledError"}

\* __aexit__ runs on every exit of the block, with or without an exception.
AExitOnSuccess(client, exc_type) ==
    IF client = "open" /\ exc_type = None THEN "closed" ELSE client

\* BaseCrawler.__aexit__: `if self.client: await self.client.aclose()`,
\* whatever exc_type is.
AExit(client, exc_type) ==
    IF client = "open" THEN "closed" ELSE client

ClientInit ==
    /\ cMode \in {"stream", "batch"}
    /\ cPc = "enter"
    /\ cClient = "none"
    /\ cExtractor = "none"
    /\ cOpened = 0
    /\ cClosed = 0
    /\ cTotal = 0
    /\ cIdx = 0
    /\ cEvent = "none"
    /\ cExit = "none"

\* The loop body for record i, or what follows the loop: the complete event
\* of generate, the return of crawl_with_emails.
ClientToRecord(i) ==
    /\ cIdx' = i
    /\ IF i <= cTotal
       THEN /\ cPc' = "fetch"
            /\ cEvent' = "none"
       ELSE IF cMode = "stream"
            THEN /\ cPc' = "suspended"
                 /\ cEvent' = "complete"
            ELSE /\ cPc' = "return"
                 /\ cEvent' = "none"

\* The end of the try body of the loop: the progress event of generate, the
\* pacing delay of crawl_with_emails.
ClientAfterBody ==
    IF cMode = "stream"
    THEN /\ cPc' = "suspended"
         /\ cEvent' = "progress"
    ELSE /\ cPc' = "sleep"
         /\ cEvent' = "none"

\* An exception leaves the block of the adapter's client.  generate's outer
\* handler turns an Exception into an error event; crawl's handler raises
\* the 500 response; a cancellation ends the run.
ClientUnwind(exc_type) ==
    /\ cClient' = AExit(cClient, exc_type)
    /\ IF exc_type = "Exception" /\ cMode = "stream"
       THEN /\ cPc' = "suspended"
            /\ cEvent' = "error"
            /\ UNCHANGED cExit
       ELSE /\ cPc' = "ended"
            /\ cEvent' = "none"
            /\ cExit' = IF exc_type = "Exception" THEN "raised"
                        ELSE IF exc_type = "GeneratorExit" THEN "stopped"
                        ELSE "cancelled"

\* The handler of the loop body: generate yields the record's progress event,
\* crawl_with_emails continues with the next record.
ClientHandler ==
    IF cMode = "stream"
    THEN /\ cPc' = "suspended"
         /\ cEvent' = "fault"
         /\ UNCHANGED cIdx
    ELSE ClientToRecord(cIdx + 1)

\* BaseCrawler.__aenter__: the adapter's client is constructed.
ClientEnter ==
    /\ UNCHANGED notClient
    /\ cPc = "enter"
    /\ cClient' = "open"
    /\ cPc' = "search"
    /\ UNCHANGED <<cMode, cExtractor, cOpened, cClosed, cTotal, cIdx, cEvent,
                   cExit>>

\* The search stage returns its records: generate yields the start event,
\* crawl_with_emails enters its loop.
ClientSearch ==
    /\ UNCHANGED notClient
    /\ cPc = "search"
    /\ \E n \in 0..MaxClientRecs :
        /\ cTotal' = n
        /\ IF cMode = "stream"
           THEN /\ cPc' = "suspended"
                /\ cEvent' = "start"
                /\ UNCHANGED cIdx
           ELSE ClientToRecord(1)
    /\ UNCHANGED <<cMode, cClient, cExtractor, cOpened, cClosed, cExit>>

\* The search stage raises, or the run is cancelled while it awaits a page.
ClientSearchRaises ==
    /\ UNCHANGED notClient
    /\ cPc = "search"
    /\ \E e \in AwaitFailures : ClientUnwind(e)
    /\ UNCHANGED <<cMode, cExtractor, cOpened, cClosed, cTotal, cIdx>>

\* The hop and detail requests of a record, made with the adapter's client:
\* a homepage to extract from, or none.
ClientFetch ==
    /\ UNCHANGED notClient
    /\ cPc = "fetch"
    /\ cClient = "open"
    /\ \/ /\ cPc' = "extract"
          /\ UNCHANGED cEvent
       \/ ClientAfterBody
    /\ UNCHANGED <<cMode, cClient, cExtractor, cOpened, cClosed, cTotal, cIdx,
                   cExit>>

\* The hop or the detail call raises into the loop's handler, or the run is
\* cancelled while it awaits the response.
ClientFetchRaises ==
    /\ UNCHANGED notClient
    /\ cPc = "fetch"
    /\ \/ /\ ClientHandler
          /\ UNCHANGED <<cClient, cExit>>
       \/ /\ ClientUnwind("CancelledError")
          /\ UNCHANGED cIdx
    /\ UNCHANGED <<cMode, cExtractor, cOpened, cClosed, cTotal>>

\* extract_from_url enters `async with httpx.AsyncClient(...) as client`.
ClientExtractOpen ==
    /\ UNCHANGED notClient
    /\ cPc = "extract"
    /\ cExtractor' = "open"
    /\ cOpened' = cOpened + 1
    /\ cPc' = "pages"
    /\ UNCHANGED <<cMode, cClient, cClosed, cTotal, cIdx, cEvent, cExit>>

\* The homepage and its contact pages were requested (their failures are
\* caught page by page): the block ends and the list is returned.
ClientExtractPages ==
    /\ UNCHANGED notClient
    /\ cPc = "pages"
    /\ cExtractor' = AExit(cExtractor, None)
    /\ cClosed' = IF cExtractor' = "closed" THEN cClosed + 1 ELSE cClosed
    /\ ClientAfterBody
    /\ UNCHANGED <<cMode, cClient, cOpened, cTotal, cIdx, cExit>>

\* The run is cancelled while the extraction awaits a page: the exception
\* leaves the block of the extraction's client, then that of the adapter's.
ClientExtractCancelled ==
    /\ UNCHANGED notClient
    /\ cPc = "pages"
    /\ cExtractor' = AExit(cExtractor, "CancelledError")
    /\ cClosed' = IF cExtractor' = "closed" THEN cClosed + 1 ELSE cClosed
    /\ ClientUnwind("CancelledError")
    /\ UNCHANGED <<cMode, cOpened, cTotal, cIdx>>

\* The consumer asks for the next event: the generator goes on after its
\* yield.  After the complete event the block of the adapter's client ends;
\* the error event was yielded outside of it.
ClientResume ==
    /\ UNCHANGED notClient
    /\ cPc = "suspended"
    /\ IF cEvent = "start" THEN
            /\ ClientToRecord(1)
            /\ UNCHANGED <<cClient, cExit>>
       ELSE IF cEvent = "progress" THEN
            /\ cPc' = "sleep"
            /\ cEvent' = "none"
            /\ UNCHANGED <<cClient, cIdx, cExit>>
       ELSE IF cEvent = "fault" THEN
            /\ ClientToRecord(cIdx + 1)
            /\ UNCHANGED <<cClient, cExit>>
       ELSE IF cEvent = "complete" THEN
            /\ cClient' = AExit(cClient, None)
            /\ cPc' = "ended"
            /\ cEvent' = "none"
            /\ cExit' = "complete"
            /\ UNCHANGED cIdx
       ELSE /\ cPc' = "ended"
            /\ cEvent' = "none"
            /\ cExit' = "error"
            /\ UNCHANGED <<cClient, cIdx>>
    /\ UNCHANGED <<cMode, cExtractor, cOpened, cClosed, cTotal>>

\* The consumer stops: the generator is closed, GeneratorExit is raised at
\* the yield it is suspended at and leaves the blocks around that yield.
ClientStop ==
    /\ UNCHANGED notClient
    /\ cPc = "suspended"
    /\ IF cEvent = "error"
       THEN /\ cPc' = "ended"
            /\ cEvent' = "none"
            /\ cExit' = "stopped"
            /\ UNCHANGED cClient
       ELSE ClientUnwind("GeneratorExit")
    /\ UNCHANGED <<cMode, cExtractor, cOpened, cClosed, cTotal, cIdx>>

\* asyncio.sleep(0.3), then the next record; or the run is cancelled in it.
ClientSleep ==
    /\ UNCHANGED notClient
    /\ cPc = "sleep"
    /\ \/ /\ ClientToRecord(cIdx + 1)
          /\ UNCHANGED <<cClient, cExit>>
       \/ /\ ClientUnwind("CancelledError")
          /\ UNCHANGED cIdx
    /\ UNCHANGED <<cMode, cExtractor, cOpened, cClosed, cTotal>>

\* crawl: the return statement inside the block of the adapter's client.
ClientReturn ==
    /\ UNCHANGED notClient
    /\ cPc = "return"
    /\ cClient' = AExit(cClient, None)
    /\ cPc' = "ended"
    /\ cExit' = "returned"
    /\ UNCHANGED <<cMode, cExtractor, cOpened, cClosed, cTotal, cIdx, cEvent>>

ClientNext ==
    \/ ClientEnter
    \/ ClientSearch
    \/ ClientSearchRaises
    \/ ClientFetch
    \/ ClientFetchRaises
    \/ ClientExtractOpen
    \/ ClientExtractPages
    \/ ClientExtractCancelled
    \/ ClientResume
    \/ ClientStop
    \/ ClientSleep
    \/ ClientReturn

----------------------------------------------------------------------------
(* SpecPair: two streaming runs (two requests to crawl_stream) whose      *)
(* steps interleave at their awaits.  Each request constructs a crawler   *)
(* of its own; search builds the list each generator keeps in its local   *)
(* companies.                                                             *)

MaxPairRecs == 2

Runs == {1, 2}

\* request.source of the two requests.
PairSources == <<"saramin", "jobkorea">>

\* What the requests for a record answer: no homepage, a homepage with an
\* address on it, or an exception of the adapter's call.
PairOutcomes == {"none", "emails", "raises"}

\* One crawler object serving every request.
SharedInstance(r) == 1

\* `async with crawler_class() as crawler`: the crawler, and with it
\* self.client, is constructed by the request that uses it.
Instance(r) == r

PairInit ==
    /\ pPc = [r \in Runs |-> "enter"]
    /\ pResp \in [Runs -> SeqsUpTo(PairOutcomes, MaxPairRecs)]
    /\ pClients = [r \in Runs |-> "none"]
    /\ pCompanies = [r \in Runs |-> <<>>]
    /\ pIdx = [r \in Runs |-> 0]
    /\ pEvents = [r \in Runs |-> <<>>]
    /\ pUsed = {}

\* BaseCrawler.fetch with the client of run r: None once the client is
\* closed, for the request raises and fetch catches it.
PairFetchOk(r) == pClients[Instance(r)] = "open"

PairUse(r) == pUsed \cup {[run |-> r, client |-> Instance(r)]}

\* The position of run r when it turns to record i of cs: the first request
\* of the loop body, or, after the loop, the complete event and the end of
\* the block of the client.
PairToRecord(r, cs, evs, i) ==
    IF i <= Len(cs)
    THEN /\ pCompanies' = [pCompanies EXCEPT
                              ![r] = [cs EXCEPT ![i].source = PairSources[r]]]
         /\ pEvents' = [pEvents EXCEPT ![r] = evs]
         /\ pIdx' = [pIdx EXCEPT ![r] = i]
         /\ pPc' = [pPc EXCEPT ![r] = "detail"]
         /\ UNCHANGED pClients
    ELSE /\ pCompanies' = [pCompanies EXCEPT ![r] = cs]
         /\ pEvents' = [pEvents EXCEPT
                           ![r] = Append(evs, CompleteEvent(Len(cs)))]
         /\ pIdx' = [pIdx EXCEPT ![r] = i]
         /\ pPc' = [pPc EXCEPT ![r] = "done"]
         /\ pClients' = [pClients EXCEPT
                            ![Instance(r)] = AExit(pClients[Instance(r)], None)]

\* BaseCrawler.__aenter__ of the crawler of run r.
PairEnter(r) ==
    /\ UNCHANGED notPair
    /\ pPc[r] = "enter"
    /\ pClients' = [pClients EXCEPT ![Instance(r)] = "open"]
    /\ pPc' = [pPc EXCEPT ![r] = "search"]
    /\ pUsed' = PairUse(r)
    /\ UNCHANGED <<pResp, pCompanies, pIdx, pEvents>>

\* The search stage of run r (no records when its pages cannot be fetched),
\* the start event, and the first record.
PairSearch(r) ==
    /\ UNCHANGED notPair
    /\ pPc[r] = "search"
    /\ LET cs == IF PairFetchOk(r)
                 THEN SearchResult(PairSources[r], Len(pResp[r]))
                 ELSE <<>>
       IN  PairToRecord(r, cs, Append(pEvents[r], StartEvent(Len(cs))), 1)
    /\ pUsed' = PairUse(r)
    /\ UNCHANGED pResp

\* The company page's URL and the homepage of a record: what the job-page
\* hop (JobKorea) and get_company_detail leave on it when they answer o.
PairDetailed(r, c, o) ==
    LET hop == PairSources[r] = "jobkorea"
        url == IF ~hop THEN c.company_url
               ELSE IF PairFetchOk(r) THEN "url" ELSE None
    IN  [c EXCEPT !.company_url = url,
                  !.homepage = IF o = "emails" /\ PairFetchOk(r) /\ url # None
                               THEN "hp" ELSE None]

\* The hop and detail requests of run r for its record, with the progress
\* event of a record without homepage, or the handler's for one that raised.
PairDetail(r) ==
    /\ UNCHANGED notPair
    /\ pPc[r] = "detail"
    /\ LET i == pIdx[r]
           cs == pCompanies[r]
           o == pResp[r][i]
           c == IF o = "raises" /\ PairFetchOk(r)
                THEN [cs[i] EXCEPT !.error = "boom"]
                ELSE PairDetailed(r, cs[i], o)
           ev == ProgressEvent(i, Len(cs), c)
       IN  IF o = "raises" /\ PairFetchOk(r)
           THEN PairToRecord(r, [cs EXCEPT ![i] = c],
                             Append(pEvents[r], ev), i + 1)
           ELSE /\ pCompanies' = [pCompanies EXCEPT ![r] = [cs EXCEPT ![i] = c]]
                /\ IF c.homepage # None
                   THEN /\ pPc' = [pPc EXCEPT ![r] = "extract"]
                        /\ UNCHANGED pEvents
                   ELSE /\ pPc' = [pPc EXCEPT ![r] = "sleep"]
                        /\ pEvents' = [pEvents EXCEPT
                                          ![r] = Append(pEvents[r], ev)]
                /\ UNCHANGED <<pIdx, pClients>>
    /\ pUsed' = PairUse(r)
    /\ UNCHANGED pResp

\* extract_from_url for the record of run r, with a client of the call, and
\* the progress event.
PairExtract(r) ==
    /\ UNCHANGED notPair
    /\ pPc[r] = "extract"
    /\ LET i == pIdx[r]
           cs == pCompanies[r]
           c == [cs[i] EXCEPT !.emails = {"e1"}]
       IN  /\ pCompanies' = [pCompanies EXCEPT ![r] = [cs EXCEPT ![i] = c]]
           /\ pEvents' = [pEvents EXCEPT
                             ![r] = Append(pEvents[r],
                                           ProgressEvent(i, Len(cs), c))]
    /\ pPc' = [pPc EXCEPT ![r] = "sleep"]
    /\ UNCHANGED <<pResp, pClients, pIdx, pUsed>>

\* asyncio.sleep(0.3) of run r, then its next record.
PairSleep(r) ==
    /\ UNCHANGED notPair
    /\ pPc[r] = "sleep"
    /\ PairToRecord(r, pCompanies[r], pEvents[r], pIdx[r] + 1)
    /\ UNCHANGED <<pResp, pUsed>>

PairNext ==
    \E r \in Runs :
        \/ PairEnter(r)
        \/ PairSearch(r)
        \/ PairDetail(r)
        \/ PairExtract(r)
        \/ PairSleep(r)

----------------------------------------------------------------------------
(* The specifications *)

Init == RunInit /\ RankOff /\ SearchOff /\ WantedOff /\ ContactOff
        /\ EmailOff /\ DetailOff /\ CardOff /\ RequestOff /\ ClientOff
        /\ PairOff

Next == RunNext

Spec == Init /\ [][Next]_vars

InitRank == RankInit /\ RunOff /\ SearchOff /\ WantedOff /\ ContactOff
            /\ EmailOff /\ DetailOff /\ CardOff /\ RequestOff
            /\ ClientOff /\ PairOff

SpecRank == InitRank /\ [][RankNext]_vars

InitSearch == SearchInit /\ RunOff /\ RankOff /\ WantedOff /\ ContactOff
              /\ EmailOff /\ DetailOff /\ CardOff /\ RequestOff
              /\ ClientOff /\ PairOff

SpecSearch == InitSearch /\ [][SearchNext]_vars

InitWanted == WantedInit /\ RunOff /\ RankOff /\ SearchOff /\ ContactOff
              /\ EmailOff /\ DetailOff /\ CardOff /\ RequestOff
              /\ ClientOff /\ PairOff

SpecWanted == InitWanted /\ [][WantedNext]_vars

InitContact == ContactInit /\ RunOff /\ RankOff /\ SearchOff
               /\ WantedOff /\ EmailOff /\ DetailOff /\ CardOff
               /\ RequestOff /\ ClientOff /\ PairOff

SpecContact == InitContact /\ [][ContactNext]_vars

InitEmail == EmailInit /\ RunOff /\ RankOff /\ SearchOff /\ WantedOff
             /\ ContactOff /\ DetailOff /\ CardOff /\ RequestOff
             /\ ClientOff /\ PairOff

SpecEmail == InitEmail /\ [][EmailNext]_vars

InitDetail == DetailInit /\ RunOff /\ RankOff /\ SearchOff /\ WantedOff
              /\ ContactOff /\ EmailOff /\ CardOff /\ RequestOff
              /\ ClientOff /\ PairOff

SpecDetail == InitDetail /\ [][DetailNext]_vars

InitRequest == RequestInit /\ RunOff /\ RankOff /\ SearchOff
               /\ WantedOff /\ ContactOff /\ EmailOff /\ DetailOff
               /\ CardOff /\ ClientOff /\ PairOff

SpecRequest == InitRequest /\ [][RequestNext]_vars

InitCard == CardInit /\ RunOff /\ RankOff /\ SearchOff /\ WantedOff
            /\ ContactOff /\ EmailOff /\ DetailOff /\ RequestOff
            /\ ClientOff /\ PairOff

SpecCard == InitCard /\ [][CardNext]_vars

InitClient == ClientInit /\ RunOff /\ RankOff /\ SearchOff /\ WantedOff
              /\ ContactOff /\ EmailOff /\ DetailOff /\ CardOff
              /\ RequestOff /\ PairOff

SpecClient == InitClient /\ [][ClientNext]_vars

InitPair == PairInit /\ RunOff /\ RankOff /\ SearchOff /\ WantedOff
            /\ ContactOff /\ EmailOff /\ DetailOff /\ CardOff
            /\ RequestOff /\ ClientOff

SpecPair == InitPair /\ [][PairNext]_vars

----------------------------------------------------------------------------
(* Properties of one pipeline run (Spec) *)

IsPrefix(s, t) ==
    /\ Len(s) <= Len(t)
    /\ \A k \in 1..Len(s) : s[k] = t[k]

\* An event without the record it carries.
EventShape(e) ==
    IF e.type = "progress"
    THEN [type |-> "progress", current |-> e.current, total |-> e.total]
    ELSE e

EventShapes == [k \in 1..Len(events) |-> EventShape(events[k])]

\* Start{n}, Progress{1,n} .. Progress{n,n}, Complete{n}.
ExpectedShapes(n) ==
    [k \in 1..(n + 2) |->
        IF k = 1 THEN StartEvent(n)
        ELSE IF k = n + 2 THEN CompleteEvent(n)
        ELSE [type |-> "progress", current |-> k - 1, total |-> n]]

FetchedFor(j) ==
    \E k \in 1..Len(trace) : trace[k].op = "fetch" /\ trace[k].rec = j

NotifiedBefore(i, q) ==
    \E p \in 1..(q - 1) : trace[p].op = "notify" /\ trace[p].rec = i

ProgressEvents == SelectSeq(events, LAMBDA e : e.type = "progress")

\* C1: in a streaming run whose search stage returned N records, the events
\* yielded are at every moment a prefix of Start{N}, Progress{1,N} ..
\* Progress{N,N}, Complete{N}, and exactly that sequence when the run has
\* ended, whichever enrichments raised; the k-th progress event carries the
\* k-th record of the search result; no enrichment fetch precedes Start.
C1_StreamSequence ==
    (mode = "stream" /\ searched) =>
        /\ IsPrefix(EventShapes, ExpectedShapes(Len(found)))
        /\ (pc = "done" => EventShapes = ExpectedShapes(Len(found)))
        /\ \A k \in 1..Len(events) :
              events[k].type = "progress" =>
                  events[k].company.company_name
                      = found[events[k].current].company_name
        /\ (trace # <<>> => events # <<>>)

\* A streaming run of three records, one of which faulted, has ended.
C1_Witness ==
    /\ mode = "stream"
    /\ pc = "done"
    /\ searched
    /\ Len(found) = 3
    /\ 2 \in faulted
    /\ Len(events) = 5

\* C2: after the enrichment of record i raised, every later record is still
\* entered (a fetch is issued for it, or its own loop body raised); only a
\* failure of the search stage ends a batch run by an exception; the list a
\* batch run returns holds exactly the records of the search result, and a
\* streaming run that has ended yielded one progress event per record.
C2_Containment ==
    /\ (pc = "done" /\ searched) =>
          \A i \in faulted : \A j \in (i + 1)..Len(found) :
              FetchedFor(j) \/ j \in faulted
    /\ (pc = "raised" => ~searched)
    /\ (mode = "batch" /\ pc = "done") =>
          /\ Len(returned) = Len(found)
          /\ { returned[k].company_name : k \in 1..Len(returned) }
                = { found[k].company_name : k \in 1..Len(found) }
    /\ (mode = "stream" /\ pc = "done" /\ searched) =>
          Len(ProgressEvents) = Len(found)

\* A batch run of three records whose first enrichment raised has returned.
C2_Witness ==
    /\ mode = "batch"
    /\ pc = "done"
    /\ 1 \in faulted
    /\ Len(returned) = 3
    /\ FetchedFor(2)
    /\ FetchedFor(3)

\* C3: when a run has ended, in batch and in streaming mode, a record of the
\* output has an error recorded exactly when its enrichment raised.
C3_ErrorRecorded ==
    (pc = "done" /\ searched) =>
        \A k \in 1..Len(companies) :
            (companies[k].company_name \in faulted)
                <=> (companies[k].error # None)

\* C4: an error event is the only event of its run (none before it, none
\* after it), and a run that yielded Start and has ended ended with Complete.
C4_ErrorReplacesStart ==
    /\ \A k \in 1..Len(events) :
          events[k].type = "error" => (k = 1 /\ Len(events) = 1 /\ pc = "done")
    /\ (pc = "done" /\ events # <<>> /\ events[1].type = "start") =>
          events[Len(events)].type = "complete"

\* The search stage of a supported source raised, and the run ended with the
\* error event alone.
C4_Witness ==
    /\ mode = "stream"
    /\ pc = "done"
    /\ source = "saramin"
    /\ events = <<ErrorEvent("boom")>>

\* C6 as claimed: in either mode the notification of record i follows every
\* enrichment fetch of the records up to i and precedes every fetch of the
\* later records.
C6_NotifiedAfterEnrichment ==
    \A p \in 1..Len(trace) : \A q \in 1..Len(trace) :
        (trace[p].op = "notify" /\ trace[q].op = "fetch") =>
            /\ (trace[q].rec <= trace[p].rec => q < p)
            /\ (trace[q].rec > trace[p].rec => q > p)

\* C6, amended: in streaming mode the progress event of record i follows the
\* enrichment fetches of record i and precedes, and has been yielded before,
\* every fetch of a later record; in batch mode the callback for record i
\* precedes the enrichment fetches of record i itself, and follows those of
\* the earlier records.
C6_ProgressOrder ==
    /\ mode = "stream" =>
          \A q \in 1..Len(trace) :
              trace[q].op = "fetch" =>
                  /\ \A i \in 1..(trace[q].rec - 1) : NotifiedBefore(i, q)
                  /\ \A p \in 1..q :
                        trace[p].op = "notify" => trace[p].rec < trace[q].rec
    /\ (mode = "batch" /\ hasCallback) =>
          \A q \in 1..Len(trace) :
              trace[q].op = "fetch" =>
                  /\ \A i \in 1..trace[q].rec : NotifiedBefore(i, q)
                  /\ \A p \in 1..q :
                        trace[p].op = "notify" => trace[p].rec <= trace[q].rec

\* A batch run with a callback enriched two records and returned.
C6_Witness ==
    /\ mode = "batch"
    /\ hasCallback
    /\ pc = "done"
    /\ FetchedFor(1)
    /\ FetchedFor(2)

----------------------------------------------------------------------------
(* Properties of the ranking step (SpecRank) *)

Counts(s) == [k \in 1..Len(s) |-> EmailCount(s[k])]
Names(s) == [k \in 1..Len(s) |-> s[k].company_name]

\* C5: the ranked list holds the records of the list ranked, by number of
\* emails descending, two records of equal count in the order they had
\* before (counts 2,0,2,1 give the records 1,3,4,2 of the list); ranking the
\* ranked list again leaves it as it is.
C5_StableRanking ==
    /\ rPc \in {"ranked", "reranked"} =>
          /\ Len(rRanked) = Len(rList)
          /\ { rRanked[k].company_name : k \in 1..Len(rRanked) } = 1..Len(rList)
          /\ \A k \in 1..Len(rRanked) :
                rRanked[k] = rList[rRanked[k].company_name]
          /\ \A i \in 1..Len(rRanked) : \A j \in (i + 1)..Len(rRanked) :
                /\ EmailCount(rRanked[i]) >= EmailCount(rRanked[j])
                /\ EmailCount(rRanked[i]) = EmailCount(rRanked[j]) =>
                      rRanked[i].company_name < rRanked[j].company_name
          /\ (Counts(rList) = <<2, 0, 2, 1>> => Names(rRanked) = <<1, 3, 4, 2>>)
    /\ rPc = "reranked" => rAgain = rRanked

\* The list with counts 2,0,2,1 was ranked, and ranked again.
C5_Witness ==
    /\ rPc = "reranked"
    /\ Counts(rList) = <<2, 0, 2, 1>>
    /\ Names(rAgain) = <<1, 3, 4, 2>>

----------------------------------------------------------------------------
(* Properties of the paginated search (SpecSearch) *)

\* The records of the pages fetched so far, in page order.
RECURSIVE PageRecords(_)
PageRecords(log) ==
    IF log = <<>> THEN <<>>
    ELSE PageRecords(SubSeq(log, 1, Len(log) - 1)) \o log[Len(log)].recs

SearchKey(c) == DedupKey(sAdapter, c)

\* The positions of all whose record has a key and is the first of its key.
FirstOfKey(all) ==
    { i \in 1..Len(all) :
        /\ SearchKey(all[i]) \notin {"", None}
        /\ \A j \in 1..(i - 1) : SearchKey(all[j]) # SearchKey(all[i]) }

\* The k-th smallest element of the set of numbers S.
Nth(S, k) == CHOOSE i \in S : Cardinality({ j \in S : j < i }) = k - 1

\* C7: the list search returns holds no two records of the same dedup key
\* and none without a key; it holds, in the order of their first
\* occurrence, exactly the first record of each key of the pages'
\* records concatenated in ascending page order.
C7_Dedup ==
    sPc = "done" =>
        LET all == PageRecords(sFetched)
            kept == FirstOfKey(all)
        IN /\ \A i \in 1..Len(sResult) : \A j \in (i + 1)..Len(sResult) :
                 SearchKey(sResult[i]) # SearchKey(sResult[j])
           /\ \A i \in 1..Len(sResult) : SearchKey(sResult[i]) \notin {"", None}
           /\ Len(sResult) = Cardinality(kept)
           /\ \A k \in 1..Len(sResult) : sResult[k] = all[Nth(kept, k)]

\* A Saramin search met two different records of one company URL and a
\* record without a URL, and returned.
C7_Witness ==
    /\ sPc = "done"
    /\ sAdapter = "saramin"
    /\ \E i \in 1..Len(sCompanies) : \E j \in (i + 1)..Len(sCompanies) :
          /\ sCompanies[i].company_url = sCompanies[j].company_url
          /\ sCompanies[i].company_url # ""
          /\ sCompanies[i] # sCompanies[j]
    /\ \E i \in 1..Len(sCompanies) : sCompanies[i].company_url = ""
    /\ Len(sResult) = 1

\* C8: the pages are fetched once each in ascending order from start_page,
\* all of them up to end_page when search returns, whether or not earlier
\* fetches failed; a page whose fetch failed adds no record; the records of
\* the other pages are all in companies, and each of them that has a key is
\* represented in the list returned.
C8_PageFetches ==
    /\ \A k \in 1..Len(sFetched) : sFetched[k].page = sStart + k - 1
    /\ sPc = "done" => Len(sFetched) = Max(0, sEnd - sStart + 1)
    /\ sPc \notin {"off"} =>
          sCompanies = PageRecords(SelectSeq(sFetched, LAMBDA e : e.ok))
    /\ sPc = "done" =>
          \A k \in 1..Len(sFetched) : \A m \in 1..Len(sFetched[k].recs) :
              LET r == sFetched[k].recs[m] IN
              (sFetched[k].ok /\ SearchKey(r) \notin {"", None}) =>
                  \E n \in 1..Len(sResult) :
                      SearchKey(sResult[n]) = SearchKey(r)

\* The fetch of the first page failed, the second page gave records, and
\* search returned them.
C8_Witness ==
    /\ sPc = "done"
    /\ Len(sFetched) = 2
    /\ ~sFetched[1].ok
    /\ sFetched[2].ok
    /\ sFetched[2].recs # <<>>
    /\ sResult # <<>>

----------------------------------------------------------------------------
(* Properties of the Wanted search (SpecWanted) *)

HasIdAndName(item) == item.id # 0 /\ item.name # ""

ResultIds == [k \in 1..Len(wResult) |-> wResult[k].api_id]

\* The raw positions (1-based) of the page window, clipped to the list.
RawWindow ==
    { p \in 1..Len(wRaw) :
        (wStart - 1) * ItemsPerPage < p /\ p <= wEnd * ItemsPerPage }

\* The number of accepted raw items before position p.
AcceptedBefore(p) ==
    Cardinality({ q \in 1..(p - 1) : HasIdAndName(wRaw[q]) })

\* C9 as claimed: the list returned holds, in order, the records of the raw
\* items whose zero-based position in the raw list lies in
\* [(start_page-1)*10, end_page*10), also when raw items were rejected.
C9_RawWindow ==
    (wPc = "done" /\ wHasData /\ wStart <= wEnd) =>
        LET ids == { wRaw[p].id : p \in { q \in RawWindow : HasIdAndName(wRaw[q]) } }
        IN /\ Len(wResult) = Cardinality(ids)
           /\ { ResultIds[k] : k \in 1..Len(wResult) } = ids

\* C9, amended: the list returned holds, in raw order, the records of the
\* accepted raw items (those with an id and a name) whose zero-based position
\* among the accepted items lies in [(start_page-1)*10, end_page*10); with no
\* raw item rejected these are the raw items of those raw positions (25 raw
\* items, pages 2 to 2: the items at the zero-based positions 10 to 19).
C9_AcceptedWindow ==
    (wPc = "done" /\ wHasData /\ wStart <= wEnd) =>
        LET win == { p \in 1..Len(wRaw) :
                        /\ HasIdAndName(wRaw[p])
                        /\ (wStart - 1) * ItemsPerPage <= AcceptedBefore(p)
                        /\ AcceptedBefore(p) < wEnd * ItemsPerPage }
        IN /\ Len(wResult) = Cardinality(win)
           /\ \A k \in 1..Len(wResult) :
                 wResult[k].api_id = wRaw[Nth(win, k)].id
           /\ (\A p \in 1..Len(wRaw) : HasIdAndName(wRaw[p])) =>
                 { ResultIds[k] : k \in 1..Len(wResult) }
                     = { wRaw[p].id : p \in RawWindow }
           /\ (Len(wRaw) = 25 /\ wStart = 2 /\ wEnd = 2
               /\ \A p \in 1..Len(wRaw) : HasIdAndName(wRaw[p])) =>
                 ResultIds = [k \in 1..10 |-> wRaw[k + 10].id]

\* Page 2 of 25 raw items of which one, on page 1, was rejected.
C9_Witness ==
    /\ wPc = "done"
    /\ wHasData
    /\ Len(wRaw) = 25
    /\ wStart = 2
    /\ wEnd = 2
    /\ \E p \in 1..10 : ~HasIdAndName(wRaw[p])
    /\ Len(wResult) = 10

----------------------------------------------------------------------------
(* Properties of one email extraction (SpecContact) *)

\* The URLs requested as contact pages, in order.
ContactRequests ==
    LET reqs == SelectSeq(xFetches, LAMBDA r : r.role = "contact")
    IN [k \in 1..Len(reqs) |-> reqs[k].url]

Qualifies(a) == a.kw /\ a.url.host = HomeUrl.host

\* The positions of the qualifying anchors that are the first of their URL.
FirstQualifying ==
    { i \in 1..Len(xAnchors) :
        /\ Qualifies(xAnchors[i])
        /\ \A j \in 1..(i - 1) :
              ~(Qualifies(xAnchors[j]) /\ xAnchors[j].url = xAnchors[i].url) }

\* C10: at most 3 contact pages are requested; the k-th one requested is the
\* URL of the k-th qualifying anchor (contact keyword, host of the homepage)
\* that is the first of its URL, and when the extraction ends the first 3 of
\* them (all, if fewer) were requested; none is on another host and none is
\* requested twice as a contact page.
C10_ContactPages ==
    LET got == ContactRequests IN
    /\ Len(got) <= 3
    /\ \A k \in 1..Len(got) : got[k].host = HomeUrl.host
    /\ \A i \in 1..Len(got) : \A j \in (i + 1)..Len(got) : got[i] # got[j]
    /\ Len(got) <= Cardinality(FirstQualifying)
    /\ \A k \in 1..Len(got) : got[k] = xAnchors[Nth(FirstQualifying, k)].url
    /\ xPc = "done" => Len(got) = Min(3, Cardinality(FirstQualifying))

\* A homepage with four distinct qualifying anchors: three were requested.
C10_Witness ==
    /\ xPc = "done"
    /\ Cardinality(FirstQualifying) = 4
    /\ Len(ContactRequests) = 3

----------------------------------------------------------------------------
(* Properties of the validator and of the emails of one extraction      *)
(* (SpecEmail)                                                          *)

\* The text matches EMAIL_PATTERN from its first to its last character.
MatchesGrammar(e) == e # <<>> /\ MatchEnd(e, 1) = Len(e)

\* The word w stands in t with no character of an address around it.
Delimited(t, w) ==
    \E i \in 0..(Len(t) - Len(w)) :
        /\ SubSeq(t, i + 1, i + Len(w)) = w
        /\ i = 0 \/ ~IsLocalChar(t[i])
        /\ i + Len(w) = Len(t) \/ ~IsDomainChar(t[i + Len(w) + 1])

\* C11: the validator is idempotent: run on the text that lists its own
\* output set, in any order, it returns that same set.
C11_Idempotent == ePc = "revalidated" => eAgain = eValid

\* The validator returned two addresses of one text and was run again on
\* the text listing them.
C11_Witness ==
    /\ ePc = "revalidated"
    /\ Cardinality(eValid) = 2
    /\ eAgain = eValid

\* C12: the emails of an extraction never hold two addresses that are equal
\* ignoring case.
C12_CaseInsensitiveUnique ==
    \A a, b \in eEmails : Lower(a) = Lower(b) => a = b

\* C13: every address in the emails of an extraction matches the grammar
\* local@domain.tld and triggers no rejection rule, whether it came from the
\* raw HTML or from a mailto: link.
C13_StoredPassValidator ==
    \A e \in eEmails : MatchesGrammar(e) /\ IsValidEmail(e)

\* C14 as claimed: the validator's output never holds a@b.co, nor
\* user@example.com.
C14_ExcludesBoundary ==
    ePc \in {"validated", "revalidated"}
        => A_B_CO \notin eValid /\ USER_EXAMPLE_COM \notin eValid

\* C14: the validator's output never holds user@example.com nor a@b.c; it
\* holds a@b.co, whose domain has exactly four characters, and a@bc.co
\* whenever they stand in the text with no address character around them.
C14_DomainBoundary ==
    ePc \in {"validated", "revalidated"}
        => /\ USER_EXAMPLE_COM \notin eValid
           /\ A_B_C \notin eValid
           /\ Delimited(eText, A_B_CO) => A_B_CO \in eValid
           /\ Delimited(eText, A_BC_CO) => A_BC_CO \in eValid

\* The validator ran on a text holding both a@b.co and user@example.com and
\* returned the first alone.
C14_Witness ==
    /\ ePc = "validated"
    /\ Delimited(eText, A_B_CO)
    /\ Contains(eText, USER_EXAMPLE_COM)
    /\ eValid = {A_B_CO}

----------------------------------------------------------------------------
(* Properties of homepage resolution (SpecDetail) *)

\* C15: homepage resolution and the job-page hop fail soft: no error while
\* fetching or interpreting the page leaves the call as an exception, and
\* after such an error the call returns None.
C15_FailSoft ==
    /\ dPc # "raised"
    /\ dPc = "done" /\ dFailure # "none"
          => dHomepage = NoHomepage /\ dCompanyUrl = None

\* The anchor is a link to another site than Saramin.
External(a) == a.href.http /\ a.href.host # SaraminDomain

\* The positions in the page of the links method m of Saramin can return:
\* for methods 1, 3 and 4 the external links its query reaches, for method 2
\* the selector's first element when it is external.
Candidates(m) ==
    LET reached == {i \in 1..Len(dDoc) : m \in dDoc[i].via} IN
    IF m = 2
    THEN IF reached # {} /\ External(dDoc[MinOf(reached)])
         THEN {MinOf(reached)} ELSE {}
    ELSE {i \in reached : External(dDoc[i])}

\* C18: Saramin homepage resolution returns the first candidate of the
\* lowest-numbered method that has one, None when no method has one, and
\* never a link to saramin.co.kr.
C18_MethodOrder ==
    dPc = "done" /\ dAdapter = "saramin" /\ dFailure = "none"
        => LET ms == {m \in 1..4 : Candidates(m) # {}} IN
           /\ ms = {} => dHomepage = NoHomepage
           /\ ms # {} => dHomepage = dDoc[MinOf(Candidates(MinOf(ms)))].href
           /\ dHomepage.host # SaraminDomain

\* Method 3's link comes after method 4's in the page, the two are links to
\* different sites, no earlier method has a candidate, and method 3's link
\* is returned.
C18_Witness ==
    /\ dPc = "done" /\ dAdapter = "saramin" /\ dFailure = "none"
    /\ Candidates(1) = {} /\ Candidates(2) = {}
    /\ Candidates(3) # {} /\ Candidates(4) # {}
    /\ MinOf(Candidates(4)) < MinOf(Candidates(3))
    /\ dDoc[MinOf(Candidates(4))].href # dDoc[MinOf(Candidates(3))].href
    /\ dHomepage = dDoc[MinOf(Candidates(3))].href

----------------------------------------------------------------------------
(* Properties of the entry points (SpecRequest) *)

AdapterNames == {"saramin", "jobkorea", "wanted"}

ValidPageRange == 1 <= qStart /\ qStart <= qEnd

\* C16: at both entry points a request naming one of the three adapters
\* (and valid otherwise) is dispatched to that adapter, and a request with
\* any other source is answered with a 4xx status and no fetch.
C16_SourceDispatch ==
    qPc = "done"
        => /\ qSource \in AdapterNames /\ ~BlankKeyword(qKeyword)
                  /\ ValidPageRange
              => qAdapter = qSource
           /\ qSource \notin AdapterNames
              => qStatus \in 400..499 /\ qFetches = <<>>

\* C17: at both entry points a request that violates
\* 1 <= startPage <= endPage is rejected before the search stage: no search
\* page is fetched, and no Start event or result list is produced.
C17_PageRangeRejected ==
    ~ValidPageRange
        => /\ qFetches = <<>>
           /\ \A i \in 1..Len(qOutput) : qOutput[i].type \notin {"start", "result"}

----------------------------------------------------------------------------
(* Properties of a JobKorea job card (SpecCard) *)

\* The positions of the links of the card that have a text.
TextPositions == {i \in 1..Len(kLinks) : Strip(kLinks[i]) # <<>>}

Longest ==
    {i \in TextPositions :
        \A j \in TextPositions : Len(Strip(kLinks[j])) <= Len(Strip(kLinks[i]))}

Shortest ==
    {i \in TextPositions :
        \A j \in TextPositions : Len(Strip(kLinks[i])) <= Len(Strip(kLinks[j]))}

\* C19 as claimed: the job title is the text of the earliest of the longest
\* links, and the company name the text of the earliest of the shortest.
C19_EarliestWins ==
    kPc = "parsed"
        => /\ kTitle = Strip(kLinks[MinOf(Longest)])
           /\ kCompany = Strip(kLinks[MinOf(Shortest)])

\* C19: the job title is the text of the earliest of the longest links, and
\* the company name the text of the latest of the shortest links.
C19_TieBreak ==
    kPc = "parsed"
        => /\ kTitle = Strip(kLinks[MinOf(Longest)])
           /\ kCompany = Strip(kLinks[MaxOf(Shortest)])

\* A card with two longest links of different texts and two shortest links
\* of different texts has been parsed.
C19_Witness ==
    /\ kPc = "parsed"
    /\ \E i, j \in Longest : kLinks[i] # kLinks[j]
    /\ \E i, j \in Shortest : kLinks[i] # kLinks[j]
    /\ Longest \cap Shortest = {}

----------------------------------------------------------------------------
(* Properties of the requests of one extraction (SpecContact), continued *)

\* C20: no automatic retry: a URL whose request has failed is not requested
\* again, and one extraction issues at most one request to the homepage URL.
C20_NoRetry ==
    /\ \A i, j \in 1..Len(xFetches) :
          i < j /\ ~xFetches[i].ok => xFetches[j].url # xFetches[i].url
    /\ Cardinality({i \in 1..Len(xFetches) : xFetches[i].url = HomeUrl}) <= 1

----------------------------------------------------------------------------
(* Properties of the progress callback of batch mode (Spec) *)

\* The handler of crawl_with_emails is handling an exception of the callback
\* of record idx: the callback alone appends a notification in batch mode,
\* and every enrichment step that raises has appended a fetch after it.
CallbackRaised ==
    /\ mode = "batch"
    /\ pc = "except"
    /\ trace # <<>>
    /\ trace[Len(trace)] = Notify(idx)

NotifiedFor(j) ==
    \E k \in 1..Len(trace) : trace[k] = Notify(j)

\* The step the handler takes after the callback of record idx raised.
CallbackContainedStep ==
    CallbackRaised =>
        /\ ~FetchedFor(idx)
        /\ companies[idx].homepage = None
        /\ companies[idx].emails = {}
        /\ companies' = companies
        /\ trace' = trace
        /\ idx' = idx + 1
        /\ pc' \in {"callback", "rank"}

\* A batch run with a callback that has returned.
CallbackRunReturned ==
    (mode = "batch" /\ hasCallback /\ pc = "done") =>
        /\ Len(returned) = Len(found)
        /\ \A i \in 1..Len(found) :
              /\ NotifiedFor(i)
              /\ FetchedFor(i) \/ i \in faulted
              /\ (i \in faulted /\ ~FetchedFor(i)) =>
                    \E k \in 1..Len(returned) :
                        /\ returned[k].company_name = i
                        /\ returned[k].homepage = None
                        /\ returned[k].emails = {}

\* C23: in batch mode an exception of the progress callback for record i does
\* not leave crawl_with_emails (only a failure of the search stage does); no
\* detail or homepage fetch is issued for record i, which is returned with
\* homepage None and no emails; the handler goes straight to record i + 1,
\* without the pacing delay; and every record is notified, the later ones
\* enriched unless their own loop body raised.
C23_CallbackContained ==
    /\ [](mode = "batch" /\ pc = "raised" => ~searched)
    /\ []CallbackRunReturned
    /\ [][CallbackContainedStep]_vars

\* The callback of the first of three records raised, the two later records
\* were notified and enriched, and the run returned.
C23_Witness ==
    /\ mode = "batch"
    /\ hasCallback
    /\ pc = "done"
    /\ Len(returned) = 3
    /\ 1 \in faulted
    /\ ~FetchedFor(1)
    /\ NotifiedFor(2) /\ FetchedFor(2)
    /\ NotifiedFor(3) /\ FetchedFor(3)

----------------------------------------------------------------------------
(* Properties of the clients of a run (SpecClient) *)

\* C21: a run that has ended, by completing, by an exception of the search
\* or of an enrichment, by a cancellation or by its consumer stopping at an
\* event, has no client open: the adapter's client is closed and every
\* client an extraction opened was closed; an extraction's client is open
\* only while that extraction runs, the adapter's client from its
\* construction on.
C21_ClientsClosed ==
    /\ cPc = "ended" =>
          /\ cClient = "closed"
          /\ cExtractor # "open"
          /\ cClosed = cOpened
    /\ cExtractor = "open" => (cPc = "pages" /\ cClient = "open")
    /\ cPc \in {"search", "fetch", "extract", "pages", "sleep", "return"}
          => cClient = "open"

\* The consumer of a streaming run stopped at an event after an extraction
\* had opened and closed its client.
C21_Witness ==
    /\ cMode = "stream"
    /\ cPc = "ended"
    /\ cExit = "stopped"
    /\ cOpened >= 1
    /\ cClient = "closed"

----------------------------------------------------------------------------
(* Properties of two concurrent runs (SpecPair) *)

\* Record i of a run of source src whose requests answered o, as the run
\* leaves it when it runs alone.
AloneRecord(src, i, o) ==
    LET c == [NewCompany(src, i) EXCEPT !.source = src]
    IN  IF o = "raises" THEN [c EXCEPT !.error = "boom"]
        ELSE [c EXCEPT !.company_url = IF src = "jobkorea" THEN "url" ELSE @,
                       !.homepage = IF o = "emails" THEN "hp" ELSE None,
                       !.emails = IF o = "emails" THEN {"e1"} ELSE {}]

AloneRecords(r) ==
    [i \in 1..Len(pResp[r]) |-> AloneRecord(PairSources[r], i, pResp[r][i])]

\* The events of run r alone: Start, a progress event per record, Complete.
AloneEvents(r) ==
    LET n == Len(pResp[r])
    IN  [k \in 1..(n + 2) |->
            IF k = 1 THEN StartEvent(n)
            ELSE IF k = n + 2 THEN CompleteEvent(n)
            ELSE ProgressEvent(k - 1, n, AloneRecords(r)[k - 1])]

\* C22: under every interleaving of the steps of two runs, each run uses the
\* client of its own crawler only; the events a run has yielded are a prefix
\* of those it yields alone on the same responses, and all of them when it
\* has ended; and its records are then those it leaves alone.
C22_RunsIndependent ==
    /\ \A u \in pUsed : u.client = u.run
    /\ \A r \in Runs :
          /\ IsPrefix(pEvents[r], AloneEvents(r))
          /\ pPc[r] = "done" =>
                /\ pEvents[r] = AloneEvents(r)
                /\ pCompanies[r] = AloneRecords(r)
                /\ pClients[r] = "closed"

\* The first run has ended and closed its client while the second, which
\* has yielded the event of its first record, still has requests to make.
C22_Witness ==
    /\ pPc[1] = "done"
    /\ Len(pEvents[1]) = 4
    /\ pPc[2] = "detail"
    /\ pIdx[2] = 2
    /\ pClients[2] = "open"

====
